---- MODULE Spec2Model ----
(***************************************************************************)
(* ESPNowMeshClock: one node of the forward-only ESP-NOW mesh clock.       *)
(*                                                                         *)
(* Two revisions of the library are modelled side by side, because they    *)
(* differ in _adjust() and _broadcast():                                   *)
(*   "src"      src/src/ESPNowMeshClock.cpp (src/unnamed/part_000 has the  *)
(*              same receive, adjust and loop code)                        *)
(*   "part_001" src/unnamed/part_001, lines 1-251                          *)
(*                                                                         *)
(* Number representation.                                                  *)
(*   uint32_t millisecond values (millis(), _lastSync, _lastBroadcast,     *)
(*   _nextBroadcastDelay, _syncTimeout) are pairs <<hi, lo>> of 16-bit     *)
(*   limbs with arithmetic modulo 2^32.                                    *)
(*   uint64_t microsecond values are integers below 2^31, far from the     *)
(*   2^56 and 2^64 wraps; _offset is held as its two's-complement reading  *)
(*   (int64_t)_offset, the way the code prints it, so that                 *)
(*   _clock() + _offset modulo 2^64 is the plain sum.                      *)
(*   float is IEEE-754 single precision: a 24-bit significand m and a      *)
(*   binary exponent, value m * 2^(-e), products rounded to nearest even.  *)
(***************************************************************************)
EXTENDS Integers, Sequences, FiniteSets, TLC

(***************************************************************************)
(* Bounds of the model                                                     *)
(***************************************************************************)
MaxAdvances == 1
MaxRx == 2

(***************************************************************************)
(* Program constants                                                       *)
(***************************************************************************)
MESHCLOCK_MAGIC_0 == 77
MESHCLOCK_MAGIC_1 == 67
MESHCLOCK_MAGIC_2 == 75
TRANSMISSION_DELAY_US == 1000
PacketSize == 10
TimestampBytes == 7
FloatSignificandBits == 24

(***************************************************************************)
(* uint32_t arithmetic on <<hi, lo>> limb pairs                            *)
(***************************************************************************)
Limb == 65536

U32Zero == <<0, 0>>

\* conversion of an int (int32_t, possibly negative) to uint32_t
U32FromInt(i) ==
    IF i >= 0
    THEN <<(i \div Limb) % Limb, i % Limb>>
    ELSE LET n  == -i
             lo == (Limb - (n % Limb)) % Limb
             b  == IF n % Limb = 0 THEN 0 ELSE 1
             hi == (2 * Limb - ((n \div Limb) % Limb) - b) % Limb
         IN  <<hi, lo>>

\* a + n modulo 2^32, n a natural number
U32Add(a, n) ==
    LET lo == a[2] + (n % Limb)
        hi == a[1] + (n \div Limb) + (lo \div Limb)
    IN  <<hi % Limb, lo % Limb>>

\* a - b modulo 2^32 (unsigned subtraction as the compiler emits it)
U32Sub(a, b) ==
    LET borrow == IF a[2] < b[2] THEN 1 ELSE 0
        lo     == (a[2] - b[2] + Limb) % Limb
        hi     == (a[1] - b[1] - borrow + 2 * Limb) % Limb
    IN  <<hi, lo>>

U32Gt(a, b) == a[1] > b[1] \/ (a[1] = b[1] /\ a[2] > b[2])

U32Ge(a, b) == a = b \/ U32Gt(a, b)

(***************************************************************************)
(* float arithmetic: (uint64_t)(delta * _alpha)                            *)
(***************************************************************************)
RECURSIVE BitLen(_)
BitLen(n) == IF n = 0 THEN 0 ELSE 1 + BitLen(n \div 2)

\* round q + r/2^s to an integer, ties to even
RoundNearestEven(q, r, s) ==
    IF s = 0 THEN q
    ELSE LET half == 2 ^ (s - 1)
         IN  IF r > half \/ (r = half /\ q % 2 = 1) THEN q + 1 ELSE q

\* int64_t -> float conversion of a non-negative value: the result is m * 2^sh
IntToFloat(d) ==
    LET len == BitLen(d)
        sh  == IF len > FloatSignificandBits THEN len - FloatSignificandBits ELSE 0
    IN  [m  |-> RoundNearestEven(d \div (2 ^ sh), d % (2 ^ sh), sh),
         sh |-> sh]

\* the exact product x * y of two significands (each at most 2^24) as
\* hi * 2^24 + lo, computed on 12-bit halves
MulWide(x, y) ==
    LET xh  == x \div 4096
        xl  == x % 4096
        yh  == y \div 4096
        yl  == y % 4096
        mid == xh * yl + xl * yh
        lo0 == (mid % 4096) * 4096 + xl * yl
    IN  [hi |-> xh * yh + (mid \div 4096) + (lo0 \div 16777216),
         lo |-> lo0 % 16777216]

\* the slew with _alpha converted to an integer before the multiplication
SlewStepIntegerAlpha(delta, alpha) == delta * (alpha.num \div alpha.den)

\* (uint64_t)(delta * _alpha) for delta > 0: delta is converted to float,
\* the product is rounded to a float, the cast truncates toward zero
SlewStep(delta, alpha) ==
    LET f  == IntToFloat(delta)
        p  == MulWide(f.m, alpha.m)
        s  == BitLen(p.hi)
        q  == p.hi * (2 ^ (FloatSignificandBits - s)) + (p.lo \div (2 ^ s))
        qr == RoundNearestEven(q, p.lo % (2 ^ s), s)
        k  == s + f.sh - alpha.e
    IN  IF k >= 0 THEN qr * (2 ^ k)
        ELSE IF -k > FloatSignificandBits + 1 THEN 0
        ELSE qr \div (2 ^ (-k))

(***************************************************************************)
(* Packet codec                                                            *)
(***************************************************************************)
Magic == <<MESHCLOCK_MAGIC_0, MESHCLOCK_MAGIC_1, MESHCLOCK_MAGIC_2>>

\* packet.timestamp[i] = (stamp >> (i * 8)) & 0xFF, i = 0..6
RECURSIVE PackTimestamp(_, _)
PackTimestamp(stamp, n) ==
    IF n = 0 THEN <<>>
    ELSE <<stamp % 256>> \o PackTimestamp(stamp \div 256, n - 1)

\* remoteMicros |= ((uint64_t)packet->timestamp[i]) << (i * 8), i = 0..6
RECURSIVE UnpackTimestamp(_)
UnpackTimestamp(bytes) ==
    IF bytes = <<>> THEN 0
    ELSE Head(bytes) + 256 * UnpackTimestamp(Tail(bytes))

\* the MeshClockPacket built by _broadcast()
MeshClockPacket(stamp) == Magic \o PackTimestamp(stamp, TimestampBytes)

(***************************************************************************)
(* uint64_t values as <<w3, w2, w1, w0>>, four 16-bit limbs, w3 the most   *)
(* significant; the codec on the full 64-bit range                         *)
(***************************************************************************)
U64Zero == <<0, 0, 0, 0>>

\* a + b modulo 2^64
U64Add(a, b) ==
    LET s0 == a[4] + b[4]
        s1 == a[3] + b[3] + (s0 \div Limb)
        s2 == a[2] + b[2] + (s1 \div Limb)
        s3 == a[1] + b[1] + (s2 \div Limb)
    IN  <<s3 % Limb, s2 % Limb, s1 % Limb, s0 % Limb>>

\* a - b modulo 2^64
U64Sub(a, b) ==
    LET d0 == a[4] - b[4]
        d1 == a[3] - b[3] - (IF d0 < 0 THEN 1 ELSE 0)
        d2 == a[2] - b[2] - (IF d1 < 0 THEN 1 ELSE 0)
        d3 == a[1] - b[1] - (IF d2 < 0 THEN 1 ELSE 0)
    IN  <<(d3 + Limb) % Limb, (d2 + Limb) % Limb, (d1 + Limb) % Limb,
          (d0 + Limb) % Limb>>

\* a >= b for two uint64_t
U64Ge(a, b) ==
    \/ a = b
    \/ \E i \in 1 .. 4 : a[i] > b[i] /\ \A j \in 1 .. i - 1 : a[j] = b[j]

\* a / n for a uint64_t a and 0 < n < 2^15: long division, limb by limb
U64DivSmall(a, n) ==
    LET c3 == a[1]
        c2 == (c3 % n) * Limb + a[2]
        c1 == (c2 % n) * Limb + a[3]
        c0 == (c1 % n) * Limb + a[4]
    IN  <<c3 \div n, c2 \div n, c1 \div n, c0 \div n>>

\* a * n modulo 2^64 for a uint64_t a and 0 <= n < 2^15
U64MulSmall(a, n) ==
    LET p0 == a[4] * n
        p1 == a[3] * n + (p0 \div Limb)
        p2 == a[2] * n + (p1 \div Limb)
        p3 == a[1] * n + (p2 \div Limb)
    IN  <<p3 % Limb, p2 % Limb, p1 % Limb, p0 % Limb>>

\* the two 32-bit words a 64-bit value occupies in memory
LowWord(v) == <<v[3], v[4]>>

HighWord(v) == <<v[1], v[2]>>

FromWords(high, low) == <<high[1], high[2], low[1], low[2]>>

\* (stamp >> (i * 8)) & 0xFF for i = 0..7
ByteOf(stamp, i) ==
    LET w == stamp[4 - (i \div 2)]
    IN  IF i % 2 = 0 THEN w % 256 ELSE w \div 256

\* the timestamp field with the most significant byte first
PackTimestamp64BigEndian(stamp) ==
    [i \in 1 .. TimestampBytes |-> ByteOf(stamp, TimestampBytes - i)]

\* packet.timestamp[i] = (stamp >> (i * 8)) & 0xFF, i = 0..6, stamp a uint64_t
PackTimestamp64(stamp) == [i \in 1 .. TimestampBytes |-> ByteOf(stamp, i - 1)]

\* acc | ((uint64_t)byte << (i * 8)), for an acc whose bits 8i..8i+7 are clear
OrShifted(acc, byte, i) ==
    [acc EXCEPT ![4 - (i \div 2)] = @ + (IF i % 2 = 0 THEN byte ELSE 256 * byte)]

\* the unpack loop with the 56-bit field taken as a signed number: bit 55 is
\* copied into bits 56..63
RECURSIVE UnpackTimestamp64SignExtend(_, _)
UnpackTimestamp64SignExtend(bytes, n) ==
    IF n = 0 THEN U64Zero
    ELSE LET v == OrShifted(UnpackTimestamp64SignExtend(bytes, n - 1),
                            bytes[n], n - 1)
         IN  IF n = TimestampBytes /\ bytes[n] >= 128
             THEN [v EXCEPT ![1] = @ + 65280]
             ELSE v

\* remoteMicros = 0; remoteMicros |= ((uint64_t)packet->timestamp[i]) << (i * 8)
\* for i = 0..n-1
RECURSIVE UnpackTimestamp64(_, _)
UnpackTimestamp64(bytes, n) ==
    IF n = 0 THEN U64Zero
    ELSE OrShifted(UnpackTimestamp64(bytes, n - 1), bytes[n], n - 1)

\* the MeshClockPacket built by _broadcast() for a uint64_t stamp
MeshClockPacket64(stamp) == Magic \o PackTimestamp64(stamp)

(***************************************************************************)
(* Configuration (constructor arguments) and inputs                        *)
(***************************************************************************)
\* float values of the slew_alpha literals: significand m, value m * 2^(-e);
\* num / den is the literal as written
Alpha025 == [m |-> 8388608, e |-> 25, num |-> 1, den |-> 4]
Alpha013 == [m |-> 8724152, e |-> 26, num |-> 13, den |-> 100]

\* the constructor's default arguments
DefaultConfig ==
    [interval |-> 1000, alpha |-> Alpha025, largeStep |-> 10000,
     syncTimeout |-> 5000, randomVariation |-> 10]

\* the node of the StateMonitoring example, with a slew rate that is not a
\* binary fraction
FastConfig ==
    [interval |-> 500, alpha |-> Alpha013, largeStep |-> 5000,
     syncTimeout |-> 2000, randomVariation |-> 15]

\* the nodes the model starts, as <<revision, configuration, millis() at
\* construction>>: one of each revision, one just after boot and one whose
\* 32-bit millisecond counter wraps 2001 ms later
Setups ==
    {<<"src", DefaultConfig, U32Zero>>,
     <<"part_001", FastConfig, <<65535, 63535>>>>}

\* how far time moves between two operations, in milliseconds: up to the
\* sync timeout T and just past it
AdvanceMs(T) == {T, T + 1}

\* stamps of received clock frames, relative to the receiver's mesh time: both
\* sides of the large-step threshold L, and small deltas of both signs
StampDeltas(L) == {-(L + 1), -500, 900, L, L + 1}

Macs == {"peerA"}

\* uint8_t bcastAddr[6] = {0xFF,0xFF,0xFF,0xFF,0xFF,0xFF}
bcastAddr == "FF:FF:FF:FF:FF:FF"

\* esp_now_peer_info_t peerInfo of begin(): the broadcast address, channel 0,
\* not encrypted
BroadcastPeer == [peer_addr |-> bcastAddr, channel |-> 0, encrypt |-> FALSE]

\* a frame as the radio delivers it: source address, bytes, length
Frame(mac, data) == [mac |-> mac, data |-> data, len |-> Len(data)]

Padding(n) == [i \in 1 .. n |-> 0]

\* payloads that are not clock frames: other lengths (8 is the raw uint64_t
\* frame of the first revision, 32 a host message) and 10 bytes with one
\* byte of the magic wrong
OtherPayloads ==
    {Magic \o Padding(5), Magic \o Padding(29), <<77, 67, 74>> \o Padding(7)}

NoFrame == [mac |-> "none", data |-> <<>>, len |-> -1]

(***************************************************************************)
(* State                                                                   *)
(***************************************************************************)
VARIABLES
    revision,            \* which revision of the library runs
    cfg,                 \* _interval, _alpha, _largeStep, _syncTimeout, _randomVariation
    pc,                  \* "constructed", "running", "restart"
    recvCb,              \* receive callback registered with the radio
    peers,               \* peer list of the radio
    clock,               \* _clock(): microsecond counter
    nowMs,               \* millis()
    offset,              \* _offset
    synced,              \* _synced
    lastSync,            \* _lastSync
    lastBroadcast,       \* _lastBroadcast
    nextBroadcastDelay,  \* _nextBroadcastDelay
    userCallback,        \* _userCallback
    last,                \* the call that is returning: inputs, outputs, state before
    sinceSync,           \* ms elapsed since the last valid clock frame
    uptime,              \* ms elapsed since construction
    nAdvance,            \* number of time advances so far
    nRx,                 \* number of valid clock frames handled so far
    wire,                \* codec on its own: a stamp, its packet, its decoding
    sched,               \* scheduler on its own: the gap between two broadcasts
    race,                \* meshMicros() preempted by the receive path
    mesh                 \* several nodes that hear each other

\* the variables of one node
nodeVars == <<revision, cfg, pc, recvCb, peers, clock, nowMs, offset, synced,
              lastSync, lastBroadcast, nextBroadcastDelay, userCallback, last,
              sinceSync, uptime, nAdvance, nRx>>

\* the variables of the separate studies, which a node leaves alone
studyVars == <<wire, sched, race, mesh>>

vars == <<nodeVars, studyVars>>

(***************************************************************************)
(* Queries                                                                 *)
(***************************************************************************)
\* uint64_t meshMicros() { return _clock() + _offset; }
meshMicros == clock + offset

\* uint32_t meshMillis() { return meshMicros() / 1000; }
meshMillis == U32FromInt(meshMicros \div 1000)

\* getSyncState() with the boundary on the wrong side: nowMs - _lastSync >= _syncTimeout
getSyncStateInclusive ==
    IF ~synced THEN "ALONE"
    ELSE IF U32Ge(U32Sub(nowMs, lastSync), U32FromInt(cfg.syncTimeout)) THEN "LOST"
    ELSE "SYNCED"

\* getSyncState() that tests the timeout before _synced
getSyncStateTimeoutFirst ==
    IF U32Gt(U32Sub(nowMs, lastSync), U32FromInt(cfg.syncTimeout)) THEN "LOST"
    ELSE IF ~synced THEN "ALONE"
    ELSE "SYNCED"

\* getSyncState() with the deadline form of the test: nowMs > _lastSync + _syncTimeout
getSyncStateDeadline ==
    IF ~synced THEN "ALONE"
    ELSE IF U32Gt(nowMs, U32Add(lastSync, cfg.syncTimeout)) THEN "LOST"
    ELSE "SYNCED"

\* SyncState getSyncState()
getSyncState ==
    IF ~synced THEN "ALONE"
    ELSE IF U32Gt(U32Sub(nowMs, lastSync), U32FromInt(cfg.syncTimeout)) THEN "LOST"
    ELSE "SYNCED"

(***************************************************************************)
(* Construction                                                            *)
(***************************************************************************)
\* the fields a reception can change
NoFields == [offset |-> 0, synced |-> FALSE, lastSync |-> U32Zero]

\* op: the operation; frame, ret: the arguments and result of a reception;
\* adjusted: _adjust() ran, with stamp remote at mesh time local; userGot,
\* userCalls: the frame passed to the user callback and the number of calls
\* made to it; sent, sendOk, sends: the frame handed to esp_now_send, its
\* result and the number of calls made to it; twin: the fields the same frame
\* leaves when it arrives through the other receive mode; the rest is the
\* state the call found; registerCallback is the argument of begin(); delay
\* is the delay loop() compared with and drew whether it called random()
NoCall == [op |-> "none", frame |-> NoFrame, ret |-> FALSE, adjusted |-> FALSE,
           remote |-> 0, local |-> 0, userGot |-> NoFrame, userCalls |-> 0,
           sent |-> NoFrame, sendOk |-> FALSE, sends |-> 0, twin |-> NoFields,
           offsetBefore |-> 0, syncedBefore |-> FALSE,
           lastSyncBefore |-> U32Zero, stateBefore |-> "ALONE",
           lastBroadcastBefore |-> U32Zero,
           nextBroadcastDelayBefore |-> U32Zero,
           registerCallback |-> FALSE, recvCbBefore |-> "none",
           peersBefore |-> <<>>, delay |-> U32Zero, drew |-> FALSE]

\* the record of a call that is not a reception
Call(op) == [NoCall EXCEPT !.op = op]

\* the node is between two calls
Idle == last = NoCall

\* the codec study has not started.  micros, delay: meshMicros() and the
\* value of TRANSMISSION_DELAY_US in the build, in the study of the stamp;
\* millis: the result of meshMillis(); micros0, millis0: meshMicros() and
\* the result of meshMillis() at an earlier call
NoWire == [phase |-> "off", stamp |-> U64Zero, packet |-> <<>>,
           accepted |-> FALSE, decoded |-> U64Zero,
           micros |-> U64Zero, delay |-> 0, millis |-> U32Zero,
           micros0 |-> U64Zero, millis0 |-> U32Zero]

\* the scheduler study has not started.  broadcasts: broadcasts so far, up to
\* 2; pause: ms since the previous call of loop(); measured: two broadcasts
\* have been seen, gap ms apart, the second one by a call of loop() that waited
\* for delay and came lastPause ms after the call before it; emitted: the
\* number of broadcasts since boot, in the study of the cold start; called:
\* loop() has been called with random() returning randomOffset, in the study
\* of the draw; draws: calls of random() since the last broadcast, the last
\* of which set the delay to drawn; gapDraws: what draws was when the last
\* broadcast was made; sends: calls of esp_now_send by the last call of
\* loop(); failed: the last broadcast was rejected by esp_now_send;
\* afterFailure: the broadcast before it was
NoSched == [broadcasts |-> 0, pause |-> 0, measured |-> FALSE, gap |-> U32Zero,
            delay |-> U32Zero, lastPause |-> 0, emitted |-> 0,
            called |-> FALSE, randomOffset |-> 0,
            draws |-> 0, drawn |-> U32Zero, gapDraws |-> 0, sends |-> 0,
            failed |-> FALSE, afterFailure |-> FALSE,
            elapses |-> 0, quiet |-> U64Zero, lost |-> FALSE,
            air |-> {}, handled |-> 0, raised |-> 0]

\* the preemption study has not started.  offset: the 64-bit _offset in
\* memory; first: the word of it meshMicros() loaded first; low, high: the
\* words it has loaded; values: the values _offset has held since the call
\* began; writes: the number of preemptions so far
NoRace == [phase |-> "off", offset |-> U64Zero, first |-> "none",
           low |-> U32Zero, high |-> U32Zero, values |-> {}, writes |-> 0,
           now |-> U32Zero, state |-> "none", rxDuring |-> FALSE]

\* the mesh study has not started.  ahead[i]: mesh time of node i minus mesh
\* time of node 1, in us; synced[i]: _synced of node i; lastRx: the sender and
\* the receiver of the last frame handled
NoMesh == [ahead |-> <<>>, synced |-> <<>>, lastRx |-> <<0, 0>>]

\* ESPNowMeshClock::ESPNowMeshClock
Init ==
    /\ \E setup \in Setups :
          /\ revision = setup[1]
          /\ cfg = setup[2]
          /\ nowMs = setup[3]
    /\ pc = "constructed"
    /\ recvCb = "none"
    /\ peers = <<>>
    /\ clock = 0
    /\ offset = 0
    /\ synced = FALSE
    /\ lastSync = U32Zero
    /\ lastBroadcast = U32Zero
    /\ nextBroadcastDelay = U32Zero
    /\ userCallback = FALSE
    /\ last = NoCall
    /\ sinceSync = 0
    /\ uptime = 0
    /\ nAdvance = 0
    /\ nRx = 0
    /\ wire = NoWire
    /\ sched = NoSched
    /\ race = NoRace
    /\ mesh = NoMesh

(***************************************************************************)
(* begin, setUserCallback                                                  *)
(***************************************************************************)
\* esp_now_is_peer_exist(addr)
IsPeerExist(table, addr) == \E i \in 1 .. Len(table) : table[i].peer_addr = addr

\* the end of begin() without the esp_now_is_peer_exist() test
AddBroadcastPeerUnchecked(table) == Append(table, BroadcastPeer)

\* the end of begin() with the esp_now_is_peer_exist() test inverted
AddBroadcastPeerInverted(table) ==
    IF IsPeerExist(table, bcastAddr) THEN Append(table, BroadcastPeer) ELSE table

\* the end of begin(): if(!esp_now_is_peer_exist(bcastAddr)) esp_now_add_peer(&peerInfo)
AddBroadcastPeer(table) ==
    IF IsPeerExist(table, bcastAddr) THEN table ELSE Append(table, BroadcastPeer)

\* the record of a call of begin(registerCallback) whose esp_now_init()
\* succeeded or not
Begun(registerCallback, initOk) ==
    [Call("begin") EXCEPT
        !.registerCallback = registerCallback, !.ret = initOk,
        !.recvCbBefore = recvCb, !.peersBefore = peers,
        !.offsetBefore = offset, !.syncedBefore = synced,
        !.lastSyncBefore = lastSync,
        !.lastBroadcastBefore = lastBroadcast,
        !.nextBroadcastDelayBefore = nextBroadcastDelay]

\* begin() whose ESP.restart() returns: the rest of begin() runs before the
\* chip reboots
BeginFallThrough(registerCallback, initOk) ==
    /\ pc \in {"constructed", "running"}
    /\ Idle
    /\ pc' = IF initOk THEN "running" ELSE "restart"
    /\ recvCb' = IF registerCallback THEN "_onReceive" ELSE recvCb
    /\ peers' = AddBroadcastPeer(peers)
    /\ last' = Begun(registerCallback, initOk)
    /\ UNCHANGED <<revision, cfg, clock, nowMs, offset, synced, lastSync,
                   lastBroadcast, nextBroadcastDelay, userCallback,
                   sinceSync, uptime, nAdvance, nRx>>
    /\ UNCHANGED studyVars

\* void begin(bool registerCallback); a failed esp_now_init() restarts the chip
Begin(registerCallback, initOk) ==
    /\ pc \in {"constructed", "running"}
    /\ Idle
    /\ IF initOk
       THEN /\ pc' = "running"
            /\ recvCb' = IF registerCallback THEN "_onReceive" ELSE recvCb
            /\ peers' = AddBroadcastPeer(peers)
       ELSE /\ pc' = "restart"
            /\ UNCHANGED <<recvCb, peers>>
    /\ last' = Begun(registerCallback, initOk)
    /\ UNCHANGED <<revision, cfg, clock, nowMs, offset, synced, lastSync,
                   lastBroadcast, nextBroadcastDelay, userCallback,
                   sinceSync, uptime, nAdvance, nRx>>
    /\ UNCHANGED studyVars

\* ESP.restart(): the chip reboots and the sketch constructs the object again
Restart ==
    /\ pc = "restart"
    /\ pc' = "constructed"
    /\ recvCb' = "none"
    /\ peers' = <<>>
    /\ clock' = 0
    /\ nowMs' = U32Zero
    /\ offset' = 0
    /\ synced' = FALSE
    /\ lastSync' = U32Zero
    /\ lastBroadcast' = U32Zero
    /\ nextBroadcastDelay' = U32Zero
    /\ userCallback' = FALSE
    /\ last' = NoCall
    /\ sinceSync' = 0
    /\ uptime' = 0
    /\ nAdvance' = 0
    /\ nRx' = 0
    /\ UNCHANGED <<revision, cfg>>
    /\ UNCHANGED studyVars

\* the sketch registers its own receive callback with the radio:
\* esp_now_register_recv_cb(onESPNowReceive)
RegisterHostCallback ==
    /\ pc = "running"
    /\ Idle
    /\ recvCb # "host"
    /\ recvCb' = "host"
    /\ last' = NoCall
    /\ UNCHANGED <<revision, cfg, pc, peers, clock, nowMs, offset, synced,
                   lastSync, lastBroadcast, nextBroadcastDelay, userCallback,
                   sinceSync, uptime, nAdvance, nRx>>
    /\ UNCHANGED studyVars

\* void setUserCallback(ESPNowRecvCallback callback)
SetUserCallback(callback) ==
    /\ pc = "running"
    /\ Idle
    /\ userCallback # callback
    /\ userCallback' = callback
    /\ last' = NoCall
    /\ UNCHANGED <<revision, cfg, pc, recvCb, peers, clock, nowMs, offset,
                   synced, lastSync, lastBroadcast, nextBroadcastDelay,
                   sinceSync, uptime, nAdvance, nRx>>
    /\ UNCHANGED studyVars

(***************************************************************************)
(* Time                                                                    *)
(***************************************************************************)
\* d milliseconds pass: millis() and the microsecond counter both move on
Advance(d) ==
    /\ pc = "running"
    /\ Idle
    /\ nAdvance < MaxAdvances
    /\ nAdvance' = nAdvance + 1
    /\ nowMs' = U32Add(nowMs, d)
    /\ clock' = clock + 1000 * d
    /\ sinceSync' = sinceSync + d
    /\ uptime' = uptime + d
    /\ last' = NoCall
    /\ UNCHANGED <<revision, cfg, pc, recvCb, peers, offset, synced,
                   lastSync, lastBroadcast, nextBroadcastDelay, userCallback,
                   nRx>>
    /\ UNCHANGED studyVars

(***************************************************************************)
(* Receive path                                                            *)
(***************************************************************************)
Abs(x) == IF x < 0 THEN -x ELSE x

\* _adjust() that stamps _lastSync only where it changes _offset
AdjustSrcStampOnChange(remoteMicros) ==
    LET localMicros == clock + offset
        delta       == remoteMicros - localMicros
    IN  IF ~synced \/ Abs(delta) > cfg.largeStep
        THEN [offset |-> offset + delta, synced |-> TRUE, lastSync |-> nowMs]
        ELSE IF delta > 0
        THEN [offset |-> offset + SlewStep(delta, cfg.alpha), synced |-> synced,
              lastSync |-> nowMs]
        ELSE [offset |-> offset, synced |-> synced, lastSync |-> lastSync]

\* _adjust() whose threshold test is abs(delta) >= _largeStep
AdjustSrcJumpInclusive(remoteMicros) ==
    LET localMicros == clock + offset
        delta       == remoteMicros - localMicros
    IN  IF ~synced \/ Abs(delta) >= cfg.largeStep
        THEN [offset |-> offset + delta, synced |-> TRUE, lastSync |-> nowMs]
        ELSE IF delta > 0
        THEN [offset |-> offset + SlewStep(delta, cfg.alpha), synced |-> synced,
              lastSync |-> nowMs]
        ELSE [offset |-> offset, synced |-> synced, lastSync |-> nowMs]

\* _adjust() of src/src/ESPNowMeshClock.cpp: the direct set adds delta
\* whatever its sign
AdjustSrc(remoteMicros) ==
    LET localMicros == clock + offset
        delta       == remoteMicros - localMicros
    IN  IF ~synced \/ Abs(delta) > cfg.largeStep
        THEN [offset |-> offset + delta, synced |-> TRUE, lastSync |-> nowMs]
        ELSE IF delta > 0
        THEN [offset |-> offset + SlewStep(delta, cfg.alpha), synced |-> synced,
              lastSync |-> nowMs]
        ELSE [offset |-> offset, synced |-> synced, lastSync |-> nowMs]

\* _adjust() that slews where it should jump
AdjustPart001SlewOnly(remoteMicros) ==
    LET localMicros == clock + offset
        delta       == remoteMicros - localMicros
    IN  IF delta > 0
        THEN [offset |-> offset + SlewStep(delta, cfg.alpha), synced |-> TRUE,
              lastSync |-> nowMs]
        ELSE [offset |-> offset, synced |-> TRUE, lastSync |-> nowMs]

\* _adjust() whose "remote behind" branch returns without setting _synced
AdjustPart001IgnoreBehind(remoteMicros) ==
    LET localMicros == clock + offset
        delta       == remoteMicros - localMicros
    IN  IF ~synced \/ Abs(delta) > cfg.largeStep
        THEN IF delta > 0
             THEN [offset |-> offset + delta, synced |-> TRUE, lastSync |-> nowMs]
             ELSE [offset |-> offset, synced |-> synced, lastSync |-> nowMs]
        ELSE IF delta > 0
        THEN [offset |-> offset + SlewStep(delta, cfg.alpha), synced |-> synced,
              lastSync |-> nowMs]
        ELSE [offset |-> offset, synced |-> synced, lastSync |-> nowMs]

\* _adjust() of src/unnamed/part_001: the direct set is forward-only
AdjustPart001(remoteMicros) ==
    LET localMicros == clock + offset
        delta       == remoteMicros - localMicros
    IN  IF ~synced \/ Abs(delta) > cfg.largeStep
        THEN IF delta > 0
             THEN [offset |-> offset + delta, synced |-> TRUE, lastSync |-> nowMs]
             ELSE [offset |-> offset, synced |-> TRUE, lastSync |-> nowMs]
        ELSE IF delta > 0
        THEN [offset |-> offset + SlewStep(delta, cfg.alpha), synced |-> synced,
              lastSync |-> nowMs]
        ELSE [offset |-> offset, synced |-> synced, lastSync |-> nowMs]

adjust(remoteMicros) ==
    IF revision = "src" THEN AdjustSrc(remoteMicros) ELSE AdjustPart001(remoteMicros)

\* the test of handleReceive() without the comparison of magic[2]
IsClockPacketTwoBytes(data, len) ==
    /\ len = PacketSize
    /\ data[1] = MESHCLOCK_MAGIC_0
    /\ data[2] = MESHCLOCK_MAGIC_1

\* the test of handleReceive(): exactly 10 bytes that start with "MCK"
IsClockPacket(data, len) ==
    /\ len = PacketSize
    /\ data[1] = MESHCLOCK_MAGIC_0
    /\ data[2] = MESHCLOCK_MAGIC_1
    /\ data[3] = MESHCLOCK_MAGIC_2

\* _adjust(remoteMicros); return true: a is what _adjust() leaves
\* a handler that answers every clock frame with a broadcast of its own time
HandledEcho(remoteMicros, a) ==
    [ret |-> TRUE, adjusted |-> TRUE, remote |-> remoteMicros,
     offset |-> a.offset, synced |-> a.synced, lastSync |-> a.lastSync,
     sent |-> Frame(bcastAddr, MeshClockPacket(clock + a.offset)), sends |-> 1]

Handled(remoteMicros, a) ==
    [ret |-> TRUE, adjusted |-> TRUE, remote |-> remoteMicros,
     offset |-> a.offset, synced |-> a.synced, lastSync |-> a.lastSync,
     sent |-> NoFrame, sends |-> 0]

\* bool handleReceive(mac, data, len): the return value, whether _adjust()
\* ran, the stamp it was given and the fields it left
\* handleReceive() that takes any frame as a sign of life of the mesh and
\* refreshes _lastSync before it looks at the frame
handleReceiveTouches(frame) ==
    IF IsClockPacket(frame.data, frame.len)
    THEN Handled(UnpackTimestamp(SubSeq(frame.data, 4, PacketSize)),
                 adjust(UnpackTimestamp(SubSeq(frame.data, 4, PacketSize))))
    ELSE [ret |-> FALSE, adjusted |-> FALSE, remote |-> 0,
          offset |-> offset, synced |-> synced, lastSync |-> nowMs,
          sent |-> NoFrame, sends |-> 0]

handleReceive(frame) ==
    IF IsClockPacket(frame.data, frame.len)
    THEN Handled(UnpackTimestamp(SubSeq(frame.data, 4, PacketSize)),
                 adjust(UnpackTimestamp(SubSeq(frame.data, 4, PacketSize))))
    ELSE [ret |-> FALSE, adjusted |-> FALSE, remote |-> 0,
          offset |-> offset, synced |-> synced, lastSync |-> lastSync,
          sent |-> NoFrame, sends |-> 0]

\* stamps a peer can send now (a stamp is an unsigned value)
Stamps == {s \in {meshMicros + k : k \in StampDeltas(cfg.largeStep)} : s >= 0}

\* _onReceive() that never calls the user callback
onReceiveDropOthers(frame) ==
    LET handled == handleReceive(frame)
    IN  [handled |-> handled, userGot |-> NoFrame, userCalls |-> 0]

\* _onReceive() that calls the user callback for every frame
onReceiveForwardAll(frame) ==
    LET handled == handleReceive(frame)
    IN  [handled |-> handled,
         userGot |-> IF userCallback THEN frame ELSE NoFrame,
         userCalls |-> IF userCallback THEN 1 ELSE 0]

\* if (!handled && _instance->_userCallback) _instance->_userCallback(mac, data, len)
Forward(frame, handled) ==
    IF ~handled.ret /\ userCallback
    THEN [handled |-> handled, userGot |-> frame, userCalls |-> 1]
    ELSE [handled |-> handled, userGot |-> NoFrame, userCalls |-> 0]

\* static void _onReceive(mac, data, len): the result of handleReceive() and
\* the call made to the user callback
onReceive(frame) == Forward(frame, handleReceive(frame))

\* a host callback that takes every 10-byte frame for one of its own
onESPNowReceiveOwnFirst(frame) ==
    LET handled == IF frame.len = PacketSize
                   THEN handleReceive(Frame(frame.mac, <<>>))
                   ELSE handleReceive(frame)
    IN  [handled |-> handled, userGot |-> NoFrame, userCalls |-> 0]

\* void onESPNowReceive(mac, data, len) of the Option1 example: the host's
\* radio callback passes every frame to handleReceive() and goes on with its
\* own messages when that returns false; nothing reaches _userCallback
onESPNowReceive(frame) ==
    [handled |-> handleReceive(frame), userGot |-> NoFrame, userCalls |-> 0]

\* the record of a reception r; other is the same frame through the other mode
Received(op, frame, r, other) ==
    LET h == r.handled
    IN  [NoCall EXCEPT
            !.op = op, !.frame = frame, !.ret = h.ret, !.adjusted = h.adjusted,
            !.remote = h.remote, !.local = IF h.adjusted THEN meshMicros ELSE 0,
            !.userGot = r.userGot, !.userCalls = r.userCalls,
            !.sent = h.sent, !.sends = h.sends,
            !.twin = [offset |-> other.handled.offset,
                      synced |-> other.handled.synced,
                      lastSync |-> other.handled.lastSync],
            !.offsetBefore = offset, !.syncedBefore = synced,
            !.lastSyncBefore = lastSync, !.stateBefore = getSyncState,
            !.lastBroadcastBefore = lastBroadcast,
            !.nextBroadcastDelayBefore = nextBroadcastDelay]

\* a reception r changes the fields; other is the same frame through the
\* other mode
Receive(op, frame, r, other) ==
    /\ pc = "running"
    /\ Idle
    /\ r.handled.adjusted => nRx < MaxRx
    /\ offset' = r.handled.offset
    /\ synced' = r.handled.synced
    /\ lastSync' = r.handled.lastSync
    /\ nRx' = IF r.handled.adjusted THEN nRx + 1 ELSE nRx
    /\ sinceSync' = IF r.handled.adjusted THEN 0 ELSE sinceSync
    /\ last' = Received(op, frame, r, other)
    /\ UNCHANGED <<revision, cfg, pc, recvCb, peers, clock, nowMs,
                   lastBroadcast, nextBroadcastDelay, userCallback,
                   uptime, nAdvance>>
    /\ UNCHANGED studyVars

\* the host's own radio callback calls handleReceive() (begin(false))
HandleReceive(frame) ==
    /\ recvCb = "host"
    /\ Receive("handleReceive", frame, onESPNowReceive(frame), onReceive(frame))

\* static void _onReceive(mac, data, len): the radio callback of begin(true)
OnReceive(frame) ==
    /\ recvCb = "_onReceive"
    /\ Receive("_onReceive", frame, onReceive(frame), onESPNowReceive(frame))

(***************************************************************************)
(* Tick path                                                               *)
(***************************************************************************)
\* Arduino random(howsmall, howbig): a value in howsmall .. howbig - 1
Random(howsmall, howbig) ==
    IF howsmall >= howbig THEN {howsmall} ELSE howsmall .. (howbig - 1)

\* the draws the model follows: both ends of the range
Draws(variation) ==
    {r \in Random(-variation, variation + 1) : r \in {-variation, variation}}

\* the stamp _broadcast() sends
BroadcastStamp ==
    IF revision = "src" THEN meshMicros ELSE meshMicros + TRANSMISSION_DELAY_US

\* loop() that draws a new delay at every call
loopRedraw(randomOffset) ==
    LET delay == U32FromInt(cfg.interval + randomOffset)
    IN  IF U32Ge(U32Sub(nowMs, lastBroadcast), delay)
        THEN [due |-> TRUE, delay |-> delay, lastBroadcast |-> nowMs,
              nextBroadcastDelay |-> U32Zero, drew |-> TRUE]
        ELSE [due |-> FALSE, delay |-> delay, lastBroadcast |-> lastBroadcast,
              nextBroadcastDelay |-> delay, drew |-> TRUE]

\* loop() whose test is nowMs - _lastBroadcast > _nextBroadcastDelay
loopLate(randomOffset) ==
    LET delay == IF nextBroadcastDelay = U32Zero
                 THEN U32FromInt(cfg.interval + randomOffset)
                 ELSE nextBroadcastDelay
    IN  IF U32Gt(U32Sub(nowMs, lastBroadcast), delay)
        THEN [due |-> TRUE, delay |-> delay, lastBroadcast |-> nowMs,
              nextBroadcastDelay |-> U32Zero, drew |-> nextBroadcastDelay = U32Zero]
        ELSE [due |-> FALSE, delay |-> delay, lastBroadcast |-> lastBroadcast,
              nextBroadcastDelay |-> delay, drew |-> nextBroadcastDelay = U32Zero]

\* loop() that measures the next gap from the time the broadcast was due
loopFromDue(randomOffset) ==
    LET delay == IF nextBroadcastDelay = U32Zero
                 THEN U32FromInt(cfg.interval + randomOffset)
                 ELSE nextBroadcastDelay
    IN  IF U32Ge(U32Sub(nowMs, lastBroadcast), delay)
        THEN [due |-> TRUE, delay |-> delay,
              lastBroadcast |-> U32Add(lastBroadcast, delay[1] * Limb + delay[2]),
              nextBroadcastDelay |-> U32Zero,
              drew |-> nextBroadcastDelay = U32Zero]
        ELSE [due |-> FALSE, delay |-> delay, lastBroadcast |-> lastBroadcast,
              nextBroadcastDelay |-> delay,
              drew |-> nextBroadcastDelay = U32Zero]

\* loop() that keeps the delay it has drawn after a broadcast
loopKeepDelay(randomOffset) ==
    LET delay == IF nextBroadcastDelay = U32Zero
                 THEN U32FromInt(cfg.interval + randomOffset)
                 ELSE nextBroadcastDelay
    IN  IF U32Ge(U32Sub(nowMs, lastBroadcast), delay)
        THEN [due |-> TRUE, delay |-> delay, lastBroadcast |-> nowMs,
              nextBroadcastDelay |-> delay,
              drew |-> nextBroadcastDelay = U32Zero]
        ELSE [due |-> FALSE, delay |-> delay, lastBroadcast |-> lastBroadcast,
              nextBroadcastDelay |-> delay,
              drew |-> nextBroadcastDelay = U32Zero]

\* loop() whose sum _interval + randomOffset is narrowed to 16 bits
loopNarrowDelay(randomOffset) ==
    LET delay == IF nextBroadcastDelay = U32Zero
                 THEN U32FromInt((cfg.interval + randomOffset) % Limb)
                 ELSE nextBroadcastDelay
    IN  IF U32Ge(U32Sub(nowMs, lastBroadcast), delay)
        THEN [due |-> TRUE, delay |-> delay, lastBroadcast |-> nowMs,
              nextBroadcastDelay |-> U32Zero,
              drew |-> nextBroadcastDelay = U32Zero]
        ELSE [due |-> FALSE, delay |-> delay, lastBroadcast |-> lastBroadcast,
              nextBroadcastDelay |-> delay,
              drew |-> nextBroadcastDelay = U32Zero]

\* loop() that leaves _lastBroadcast alone when it broadcasts
loopNoStamp(randomOffset) ==
    LET delay == IF nextBroadcastDelay = U32Zero
                 THEN U32FromInt(cfg.interval + randomOffset)
                 ELSE nextBroadcastDelay
    IN  IF U32Ge(U32Sub(nowMs, lastBroadcast), delay)
        THEN [due |-> TRUE, delay |-> delay, lastBroadcast |-> lastBroadcast,
              nextBroadcastDelay |-> U32Zero,
              drew |-> nextBroadcastDelay = U32Zero]
        ELSE [due |-> FALSE, delay |-> delay, lastBroadcast |-> lastBroadcast,
              nextBroadcastDelay |-> delay,
              drew |-> nextBroadcastDelay = U32Zero]

\* void loop(): whether a broadcast is due, the delay it waits for, the
\* fields it leaves and whether it called random();
\* randomOffset is the value random() returns if it is called
loop(randomOffset) ==
    LET delay == IF nextBroadcastDelay = U32Zero
                 THEN U32FromInt(cfg.interval + randomOffset)
                 ELSE nextBroadcastDelay
    IN  IF U32Ge(U32Sub(nowMs, lastBroadcast), delay)
        THEN [due |-> TRUE, delay |-> delay, lastBroadcast |-> nowMs,
              nextBroadcastDelay |-> U32Zero, drew |-> nextBroadcastDelay = U32Zero]
        ELSE [due |-> FALSE, delay |-> delay, lastBroadcast |-> lastBroadcast,
              nextBroadcastDelay |-> delay, drew |-> nextBroadcastDelay = U32Zero]

\* _broadcast() that calls esp_now_send again when the call fails
broadcastRetry(ok) ==
    [sent |-> Frame(bcastAddr, MeshClockPacket(BroadcastStamp)),
     sendOk |-> ok, sends |-> IF ok THEN 1 ELSE 2]

\* void _broadcast(): the frame handed to esp_now_send, the result ok of the
\* call, which is only logged, and the number of calls
broadcast(ok) ==
    [sent |-> Frame(bcastAddr, MeshClockPacket(BroadcastStamp)),
     sendOk |-> ok, sends |-> 1]

\* loop() has not called _broadcast()
NotSent == [sent |-> NoFrame, sendOk |-> FALSE, sends |-> 0]

\* the record of a call of loop() that did l and whose _broadcast() did b
Looped(l, b) ==
    [Call("loop") EXCEPT
        !.sent = b.sent, !.sendOk = b.sendOk, !.sends = b.sends,
        !.delay = l.delay, !.drew = l.drew,
        !.offsetBefore = offset, !.syncedBefore = synced,
        !.lastSyncBefore = lastSync,
        !.lastBroadcastBefore = lastBroadcast,
        !.nextBroadcastDelayBefore = nextBroadcastDelay]

\* loop() that counts its own broadcast as a sign of life of the mesh and
\* refreshes _lastSync when it sends
LoopMarksSync(randomOffset, ok) ==
    LET l == loop(randomOffset)
    IN  /\ pc = "running"
        /\ Idle
        /\ lastBroadcast' = l.lastBroadcast
        /\ nextBroadcastDelay' = l.nextBroadcastDelay
        /\ lastSync' = IF l.due THEN nowMs ELSE lastSync
        /\ last' = Looped(l, IF l.due THEN broadcast(ok) ELSE NotSent)
        /\ UNCHANGED <<revision, cfg, pc, recvCb, peers, clock, nowMs,
                       offset, synced, userCallback,
                       sinceSync, uptime, nAdvance, nRx>>
        /\ UNCHANGED studyVars

\* void loop(), with _broadcast() when one is due; ok is the result of
\* esp_now_send
Loop(randomOffset, ok) ==
    LET l == loop(randomOffset)
    IN  /\ pc = "running"
        /\ Idle
        /\ lastBroadcast' = l.lastBroadcast
        /\ nextBroadcastDelay' = l.nextBroadcastDelay
        /\ last' = Looped(l, IF l.due THEN broadcast(ok) ELSE NotSent)
        /\ UNCHANGED <<revision, cfg, pc, recvCb, peers, clock, nowMs,
                       offset, synced, lastSync, userCallback,
                       sinceSync, uptime, nAdvance, nRx>>
        /\ UNCHANGED studyVars

\* begin(), handleReceive(), _onReceive() or loop() returns to its caller, which has
\* seen the results; the fields stay as the call left them
Return ==
    /\ ~Idle
    /\ last' = NoCall
    /\ UNCHANGED <<revision, cfg, pc, recvCb, peers, clock, nowMs, offset,
                   synced, lastSync, lastBroadcast, nextBroadcastDelay,
                   userCallback, sinceSync, uptime, nAdvance, nRx>>
    /\ UNCHANGED studyVars

(***************************************************************************)
(* Specification                                                           *)
(***************************************************************************)
\* the sketch calls begin() once, in setup(), and after begin(false) registers
\* its own receive callback
Next ==
    \/ /\ pc = "constructed"
       /\ \E registerCallback \in BOOLEAN, initOk \in BOOLEAN :
             Begin(registerCallback, initOk)
    \/ /\ recvCb = "none"
       /\ RegisterHostCallback
    \/ Restart
    \/ \E callback \in BOOLEAN : SetUserCallback(callback)
    \/ \E d \in AdvanceMs(cfg.syncTimeout) : Advance(d)
    \/ \E mac \in Macs, stamp \in Stamps :
          HandleReceive(Frame(mac, MeshClockPacket(stamp)))
    \/ \E mac \in Macs, data \in OtherPayloads : HandleReceive(Frame(mac, data))
    \/ \E mac \in Macs, stamp \in Stamps :
          OnReceive(Frame(mac, MeshClockPacket(stamp)))
    \/ \E mac \in Macs, data \in OtherPayloads : OnReceive(Frame(mac, data))
    \/ \E randomOffset \in Draws((cfg.interval * cfg.randomVariation) \div 100),
          ok \in BOOLEAN : Loop(randomOffset, ok)
    \/ Return

Spec == Init /\ [][Next]_vars

(***************************************************************************)
(* The codec on its own: a stamp is packed by _broadcast() and the packet  *)
(* is unpacked by handleReceive().  The node stays as constructed.         *)
(***************************************************************************)
\* a node that is constructed and then left alone
Parked ==
    /\ revision = "src"
    /\ cfg = DefaultConfig
    /\ pc = "constructed"
    /\ recvCb = "none"
    /\ peers = <<>>
    /\ clock = 0
    /\ nowMs = U32Zero
    /\ offset = 0
    /\ synced = FALSE
    /\ lastSync = U32Zero
    /\ lastBroadcast = U32Zero
    /\ nextBroadcastDelay = U32Zero
    /\ userCallback = FALSE
    /\ last = NoCall
    /\ sinceSync = 0
    /\ uptime = 0
    /\ nAdvance = 0
    /\ nRx = 0

\* 64-bit stamps: every byte position empty, full and in between; the top
\* byte (bits 56..63) clear and set
WideStamps ==
    {<<w3, w2, w1, w0>> :
        w3 \in {0, 1, 255, 256, 65535}, w2 \in {0, 32768, 65535},
        w1 \in {0, 258, 65535}, w0 \in {0, 1, 4660, 65535}}

CodecInit ==
    /\ Parked
    /\ sched = NoSched
    /\ race = NoRace
    /\ mesh = NoMesh
    /\ \E stamp \in WideStamps :
          wire = [NoWire EXCEPT !.phase = "stamp", !.stamp = stamp]

\* _broadcast(): the packet for wire.stamp
Encode ==
    /\ wire.phase = "stamp"
    /\ wire' = [wire EXCEPT !.phase = "sent",
                            !.packet = MeshClockPacket64(wire.stamp)]
    /\ UNCHANGED <<nodeVars, sched, race, mesh>>

\* handleReceive(): the test of the packet and the value given to _adjust()
Decode ==
    /\ wire.phase = "sent"
    /\ LET ok == IsClockPacket(wire.packet, Len(wire.packet))
       IN  wire' = [wire EXCEPT
                       !.phase = "received",
                       !.accepted = ok,
                       !.decoded =
                           IF ok
                           THEN UnpackTimestamp64(
                                    SubSeq(wire.packet, 4, Len(wire.packet)),
                                    TimestampBytes)
                           ELSE U64Zero]
    /\ UNCHANGED <<nodeVars, sched, race, mesh>>

CodecNext == Encode \/ Decode

CodecSpec == CodecInit /\ [][CodecNext]_vars

(***************************************************************************)
(* The stamp on its own: _broadcast() reads meshMicros(), adds the         *)
(* transmission delay the library was built with, and packs the sum; the   *)
(* packet is unpacked by handleReceive().                                  *)
(***************************************************************************)
\* a natural number below 2^32 as a uint64_t
U64FromNat(n) == <<0, 0, n \div Limb, n % Limb>>

\* values of TRANSMISSION_DELAY_US a build can have: the default of the
\* header, and 0 and 250 given with -DTRANSMISSION_DELAY_US=...
TxDelays == {0, 250, TRANSMISSION_DELAY_US}

\* _broadcast() that sends meshMicros() whatever the build's delay is
BroadcastStamp64Uncompensated(micros, delay) == micros

\* uint64_t stamp = meshMicros() + TRANSMISSION_DELAY_US (part_001);
\* uint64_t stamp = meshMicros() (src)
BroadcastStamp64(micros, delay) ==
    IF revision = "src" THEN micros ELSE U64Add(micros, U64FromNat(delay))

StampInit ==
    /\ \E rev \in {"src", "part_001"} : revision = rev
    /\ cfg = DefaultConfig
    /\ pc = "running"
    /\ recvCb = "_onReceive"
    /\ peers = <<BroadcastPeer>>
    /\ clock = 0
    /\ nowMs = U32Zero
    /\ offset = 0
    /\ synced = FALSE
    /\ lastSync = U32Zero
    /\ lastBroadcast = U32Zero
    /\ nextBroadcastDelay = U32Zero
    /\ userCallback = FALSE
    /\ last = NoCall
    /\ sinceSync = 0
    /\ uptime = 0
    /\ nAdvance = 0
    /\ nRx = 0
    /\ sched = NoSched
    /\ race = NoRace
    /\ mesh = NoMesh
    /\ \E micros \in WideStamps, delay \in TxDelays :
          wire = [NoWire EXCEPT !.phase = "due", !.micros = micros,
                                !.delay = delay]

\* _broadcast(): the stamp and the packet handed to esp_now_send
StampBroadcast ==
    /\ wire.phase = "due"
    /\ wire' = [wire EXCEPT
                    !.phase = "sent",
                    !.stamp = BroadcastStamp64(wire.micros, wire.delay),
                    !.packet = MeshClockPacket64(
                                   BroadcastStamp64(wire.micros, wire.delay))]
    /\ UNCHANGED <<nodeVars, sched, race, mesh>>

StampNext == StampBroadcast \/ Decode

StampSpec == StampInit /\ [][StampNext]_vars

(***************************************************************************)
(* meshMillis() on its own: it is called, mesh time moves on, and it is    *)
(* called again.                                                           *)
(***************************************************************************)
\* meshMillis() that narrows meshMicros() to 32 bits before it divides
meshMillis64NarrowFirst(micros) ==
    LowWord(U64DivSmall(FromWords(U32Zero, LowWord(micros)), 1000))

\* uint32_t meshMillis() { return meshMicros() / 1000; }: the 64-bit quotient,
\* then the conversion to uint32_t
meshMillis64(micros) == LowWord(U64DivSmall(micros, 1000))

\* mesh times (us): at 0, at the first millisecond, around the point where the
\* millisecond count passes 2^32 (2^32 * 1000 us), beyond it, and at the end
\* of the 64-bit range
MillisMicros ==
    {<<0, 0, 0, 0>>, <<0, 0, 0, 999>>, <<0, 0, 0, 1000>>, <<0, 0, 1, 0>>,
     <<0, 999, 65535, 64535>>, <<0, 999, 65535, 64536>>,
     <<0, 999, 65535, 65535>>, <<0, 1000, 0, 0>>, <<0, 1000, 0, 1>>,
     <<0, 2000, 0, 5>>, <<255, 65535, 65535, 65535>>,
     <<65535, 65535, 65535, 64536>>}

\* how far mesh time moves between the two calls (us): 1 us, about 1 ms,
\* 65.536 s, 2^32 - 1 ms, 2^32 ms, 2^32 + 1 ms
MillisSteps ==
    {<<0, 0, 0, 1>>, <<0, 0, 0, 999>>, <<0, 0, 0, 1000>>, <<0, 0, 0, 1001>>,
     <<0, 0, 1000, 0>>, <<0, 999, 65535, 64536>>, <<0, 1000, 0, 0>>,
     <<0, 1000, 0, 1000>>}

MillisInit ==
    /\ Parked
    /\ sched = NoSched
    /\ race = NoRace
    /\ mesh = NoMesh
    /\ \E micros \in MillisMicros :
          wire = [NoWire EXCEPT !.phase = "t0", !.micros = micros]

\* the first call of meshMillis()
MillisFirst ==
    /\ wire.phase = "t0"
    /\ wire' = [wire EXCEPT !.phase = "t1", !.micros0 = wire.micros,
                            !.millis0 = meshMillis64(wire.micros)]
    /\ UNCHANGED <<nodeVars, sched, race, mesh>>

\* mesh time moves on by step: the counter runs, _adjust() moves _offset
MillisElapse(step) ==
    /\ wire.phase = "t1"
    /\ wire' = [wire EXCEPT !.phase = "moved",
                            !.micros = U64Add(wire.micros, step)]
    /\ UNCHANGED <<nodeVars, sched, race, mesh>>

\* the second call of meshMillis()
MillisSecond ==
    /\ wire.phase = "moved"
    /\ wire' = [wire EXCEPT !.phase = "t2",
                            !.millis = meshMillis64(wire.micros)]
    /\ UNCHANGED <<nodeVars, sched, race, mesh>>

MillisNext ==
    \/ MillisFirst
    \/ \E step \in MillisSteps : MillisElapse(step)
    \/ MillisSecond

MillisSpec == MillisInit /\ [][MillisNext]_vars

(***************************************************************************)
(* The scheduler on its own: a running node whose loop() is called at      *)
(* pauses of one or more milliseconds, followed ms by ms over several      *)
(* broadcasts.  The interval is short so that every draw is followed.      *)
(***************************************************************************)
\* pauses between two calls of loop(), in ms: every millisecond, every other
\* one, and the delay(10) of the examples scaled to the interval
Pauses == {1, 2, 5}

\* how long the scheduler is followed, in ms
MaxSchedMs == 48

\* interval_ms = 20, random_variation_percent = 10: the delays are 18 .. 22
SchedConfig ==
    [interval |-> 20, alpha |-> Alpha025, largeStep |-> 10000,
     syncTimeout |-> 5000, randomVariation |-> 10]

\* a node that has run begin() and whose millis() wraps 11 ms later
SchedInit ==
    /\ revision = "src"
    /\ cfg = SchedConfig
    /\ pc = "running"
    /\ recvCb = "_onReceive"
    /\ peers = <<BroadcastPeer>>
    /\ clock = 0
    /\ nowMs = <<65535, 65525>>
    /\ offset = 0
    /\ synced = FALSE
    /\ lastSync = U32Zero
    /\ lastBroadcast = U32Zero
    /\ nextBroadcastDelay = U32Zero
    /\ userCallback = FALSE
    /\ last = NoCall
    /\ sinceSync = 0
    /\ uptime = 0
    /\ nAdvance = 0
    /\ nRx = 0
    /\ wire = NoWire
    /\ sched = NoSched
    /\ race = NoRace
    /\ mesh = NoMesh

\* the host does something else for d ms between two calls of loop()
SchedPause(d) ==
    /\ sched.pause = 0
    /\ uptime + d <= MaxSchedMs
    /\ nowMs' = U32Add(nowMs, d)
    /\ clock' = clock + 1000 * d
    /\ uptime' = uptime + d
    /\ sched' = [sched EXCEPT !.pause = d]
    /\ UNCHANGED <<revision, cfg, pc, recvCb, peers, offset, synced,
                   lastSync, lastBroadcast, nextBroadcastDelay, userCallback,
                   last, sinceSync, nAdvance, nRx, wire, race, mesh>>

\* what the scheduler study has seen after a call of loop() that did l and
\* whose _broadcast(), if it was called, did b
Observed(l, b) ==
    IF l.due
    THEN [sched EXCEPT
             !.broadcasts = IF sched.broadcasts = 0 THEN 1 ELSE 2,
             !.pause = 0,
             !.measured = sched.broadcasts > 0,
             !.gap = IF sched.broadcasts > 0
                     THEN U32Sub(nowMs, lastBroadcast) ELSE U32Zero,
             !.delay = IF sched.broadcasts > 0 THEN l.delay ELSE U32Zero,
             !.lastPause = IF sched.broadcasts > 0 THEN sched.pause ELSE 0,
             !.draws = 0,
             !.drawn = U32Zero,
             !.gapDraws = IF l.drew THEN sched.draws + 1 ELSE sched.draws,
             !.sends = b.sends,
             !.failed = ~b.sendOk,
             !.afterFailure = sched.failed]
    ELSE [sched EXCEPT
             !.pause = 0,
             !.draws = IF l.drew THEN @ + 1 ELSE @,
             !.drawn = IF l.drew THEN l.delay ELSE @,
             !.sends = b.sends]

\* one call of loop(); ok is the result of esp_now_send if it is called
SchedLoop(randomOffset, ok) ==
    LET l == loop(randomOffset)
    IN  /\ lastBroadcast' = l.lastBroadcast
        /\ nextBroadcastDelay' = l.nextBroadcastDelay
        /\ sched' = Observed(l, IF l.due THEN broadcast(ok) ELSE NotSent)
        /\ UNCHANGED <<revision, cfg, pc, recvCb, peers, clock, nowMs,
                       offset, synced, lastSync, userCallback, last,
                       sinceSync, uptime, nAdvance, nRx, wire, race, mesh>>

SchedNext ==
    \/ \E d \in Pauses : SchedPause(d)
    \/ \E randomOffset \in Random(-((cfg.interval * cfg.randomVariation) \div 100),
                                   (cfg.interval * cfg.randomVariation) \div 100 + 1) :
          SchedLoop(randomOffset, TRUE)

SchedSpec == SchedInit /\ [][SchedNext]_vars

(***************************************************************************)
(* The scheduler with a radio that rejects frames: the same node, whose    *)
(* calls of esp_now_send succeed or fail, followed over two broadcasts.    *)
(***************************************************************************)
\* how long the node is followed, in ms
MaxFailMs == 27

\* the host does something else for d ms between two calls of loop()
FailPause(d) ==
    /\ uptime + d <= MaxFailMs
    /\ SchedPause(d)

FailNext ==
    \/ \E d \in Pauses : FailPause(d)
    \/ \E randomOffset \in Random(-((cfg.interval * cfg.randomVariation) \div 100),
                                   (cfg.interval * cfg.randomVariation) \div 100 + 1),
          ok \in BOOLEAN :
          SchedLoop(randomOffset, ok)

FailSpec == SchedInit /\ [][FailNext]_vars

(***************************************************************************)
(* Cold start of a single node: the default configuration, millis() at 0,  *)
(* no frame ever received; the sketch calls loop() at every millisecond.   *)
(***************************************************************************)
\* how long the node is followed, in ms
MaxColdMs == 10000

ColdInit ==
    /\ revision = "src"
    /\ cfg = DefaultConfig
    /\ pc = "running"
    /\ recvCb = "_onReceive"
    /\ peers = <<BroadcastPeer>>
    /\ clock = 0
    /\ nowMs = U32Zero
    /\ offset = 0
    /\ synced = FALSE
    /\ lastSync = U32Zero
    /\ lastBroadcast = U32Zero
    /\ nextBroadcastDelay = U32Zero
    /\ userCallback = FALSE
    /\ last = NoCall
    /\ sinceSync = 0
    /\ uptime = 0
    /\ nAdvance = 0
    /\ nRx = 0
    /\ wire = NoWire
    /\ sched = NoSched
    /\ race = NoRace
    /\ mesh = NoMesh

\* one pass of the sketch's loop: loop() is called, then a millisecond passes
ColdTick(randomOffset) ==
    LET l == loop(randomOffset)
    IN  /\ uptime <= MaxColdMs
        /\ lastBroadcast' = l.lastBroadcast
        /\ nextBroadcastDelay' = l.nextBroadcastDelay
        /\ sched' = [sched EXCEPT !.emitted = IF l.due THEN @ + 1 ELSE @]
        /\ nowMs' = U32Add(nowMs, 1)
        /\ clock' = clock + 1000
        /\ uptime' = uptime + 1
        /\ UNCHANGED <<revision, cfg, pc, recvCb, peers, offset, synced,
                       lastSync, userCallback, last, sinceSync, nAdvance, nRx,
                       wire, race, mesh>>

ColdNext ==
    \E randomOffset \in Draws((cfg.interval * cfg.randomVariation) \div 100) :
        ColdTick(randomOffset)

ColdSpec == ColdInit /\ [][ColdNext]_vars

(***************************************************************************)
(* Silence: a running node that receives clock frames and is then left     *)
(* without any for up to 2^32 ms and more, while the host reads            *)
(* getSyncState().  Time is followed on the 32-bit millis() alone: the     *)
(* microsecond counter, which getSyncState() does not read and which       *)
(* _adjust() uses only through remote - local, is held at the reading of   *)
(* the start, and the stamps received are taken relative to it.            *)
(* sched.quiet is the time since the last valid clock frame in ms, as a    *)
(* 64-bit number; sched.lost tells that getSyncState() has returned LOST   *)
(* since then.                                                             *)
(***************************************************************************)
\* how many times the host lets time pass
MaxSilence == 5

\* how long the host waits between two looks at the state, in ms: a
\* millisecond, one more than the sync timeout T, and 2^30 ms (12.4 days)
SilenceSteps(T) == {1, T + 1, 1073741824}

\* a node that has run begin(), just booted or 2001 ms before its millis()
\* wraps
SilenceInit ==
    /\ \E rev \in {"src", "part_001"} : revision = rev
    /\ cfg = DefaultConfig
    /\ pc = "running"
    /\ recvCb = "_onReceive"
    /\ peers = <<BroadcastPeer>>
    /\ clock = 0
    /\ \E now \in {U32Zero, <<65535, 63535>>} : nowMs = now
    /\ offset = 0
    /\ synced = FALSE
    /\ lastSync = U32Zero
    /\ lastBroadcast = U32Zero
    /\ nextBroadcastDelay = U32Zero
    /\ userCallback = FALSE
    /\ last = NoCall
    /\ sinceSync = 0
    /\ uptime = 0
    /\ nAdvance = 0
    /\ nRx = 0
    /\ wire = NoWire
    /\ sched = NoSched
    /\ race = NoRace
    /\ mesh = NoMesh

\* the host reads getSyncState(), then d ms pass without a frame
SilenceElapse(d) ==
    /\ sched.elapses < MaxSilence
    /\ nowMs' = U32Add(nowMs, d)
    /\ sched' = [sched EXCEPT
                    !.elapses = @ + 1,
                    !.quiet = U64Add(@, U64FromNat(d)),
                    !.lost = @ \/ getSyncState = "LOST"]
    /\ UNCHANGED <<revision, cfg, pc, recvCb, peers, clock, offset, synced,
                   lastSync, lastBroadcast, nextBroadcastDelay, userCallback,
                   last, sinceSync, uptime, nAdvance, nRx, wire, race, mesh>>

\* the radio delivers a clock frame to _onReceive()
SilenceReceive(frame) ==
    LET r == onReceive(frame)
    IN  /\ nRx < MaxRx
        /\ r.handled.adjusted
        /\ offset' = r.handled.offset
        /\ synced' = r.handled.synced
        /\ lastSync' = r.handled.lastSync
        /\ nRx' = nRx + 1
        /\ sched' = [sched EXCEPT !.quiet = U64Zero, !.lost = FALSE]
        /\ UNCHANGED <<revision, cfg, pc, recvCb, peers, clock, nowMs,
                       lastBroadcast, nextBroadcastDelay, userCallback, last,
                       sinceSync, uptime, nAdvance, wire, race, mesh>>

SilenceNext ==
    \/ \E d \in SilenceSteps(cfg.syncTimeout) : SilenceElapse(d)
    \/ \E mac \in Macs, stamp \in Stamps :
          SilenceReceive(Frame(mac, MeshClockPacket(stamp)))

SilenceSpec == SilenceInit /\ [][SilenceNext]_vars

(***************************************************************************)
(* The slew on its own: synced nodes constructed with slew rates from 0 to *)
(* 1 and with thresholds up to 40 s receive clock frames that are ahead of *)
(* them by a microsecond up to 2^25 us and more.                           *)
(***************************************************************************)
\* float values of slew_alpha = 0.0 and 1.0, the ends of the documented range
Alpha0 == [m |-> 0, e |-> 0, num |-> 0, den |-> 1]
Alpha1 == [m |-> 8388608, e |-> 23, num |-> 1, den |-> 1]

\* constructor arguments: every slew rate with the default threshold and with
\* large_step_us = 40000000
SlewConfigs ==
    {[DefaultConfig EXCEPT !.alpha = a, !.largeStep = L] :
        a \in {Alpha0, Alpha013, Alpha025, Alpha1}, L \in {10000, 40000000}}

\* how far ahead of the receiver the stamps are, in us: around the smallest
\* steps, at the default threshold, and on both sides of 2^24 and 2^25, where
\* the conversion of delta to float starts to round
SlewDeltas == {1, 3, 10000, 16777215, 16777217, 16777219, 33554438}

SlewInit ==
    /\ \E rev \in {"src", "part_001"} : revision = rev
    /\ \E c \in SlewConfigs : cfg = c
    /\ pc = "running"
    /\ recvCb = "_onReceive"
    /\ peers = <<BroadcastPeer>>
    /\ clock = 0
    /\ nowMs = U32Zero
    /\ \E s \in BOOLEAN : synced = s
    /\ offset = 0
    /\ lastSync = U32Zero
    /\ lastBroadcast = U32Zero
    /\ nextBroadcastDelay = U32Zero
    /\ userCallback = FALSE
    /\ last = NoCall
    /\ sinceSync = 0
    /\ uptime = 0
    /\ nAdvance = 0
    /\ nRx = 0
    /\ wire = NoWire
    /\ sched = NoSched
    /\ race = NoRace
    /\ mesh = NoMesh

SlewNext ==
    \/ \E mac \in Macs, delta \in SlewDeltas :
          OnReceive(Frame(mac, MeshClockPacket(meshMicros + delta)))
    \/ Return

SlewSpec == SlewInit /\ [][SlewNext]_vars

(***************************************************************************)
(* The draw on its own: nodes constructed with intervals and variations    *)
(* over the whole range of their types, whose loop() is called once.       *)
(***************************************************************************)
\* interval_ms (uint16_t): both ends of the range and values in between
DrawIntervals == {0, 1, 99, 100, 1000, 65535}

\* random_variation_percent (uint8_t): 0 .. 100, and beyond
DrawVariations == {0, 1, 10, 99, 100, 101, 255}

\* the values of random(-variation, variation + 1) that are followed: the
\* ends of the range, their neighbours, and the values around 0
DrawOffsets(variation) ==
    {r \in Random(-variation, variation + 1) :
        r \in {-variation, 1 - variation, -1, 0, 1, variation - 1, variation}}

DrawInit ==
    /\ revision = "src"
    /\ \E interval \in DrawIntervals, variation \in DrawVariations :
          cfg = [DefaultConfig EXCEPT !.interval = interval,
                                      !.randomVariation = variation]
    /\ pc = "running"
    /\ recvCb = "_onReceive"
    /\ peers = <<BroadcastPeer>>
    /\ clock = 0
    /\ nowMs = U32Zero
    /\ offset = 0
    /\ synced = FALSE
    /\ lastSync = U32Zero
    /\ lastBroadcast = U32Zero
    /\ nextBroadcastDelay = U32Zero
    /\ userCallback = FALSE
    /\ last = NoCall
    /\ sinceSync = 0
    /\ uptime = 0
    /\ nAdvance = 0
    /\ nRx = 0
    /\ wire = NoWire
    /\ sched = NoSched
    /\ race = NoRace
    /\ mesh = NoMesh

\* the first call of loop()
DrawLoop(randomOffset) ==
    LET l == loop(randomOffset)
    IN  /\ ~sched.called
        /\ lastBroadcast' = l.lastBroadcast
        /\ nextBroadcastDelay' = l.nextBroadcastDelay
        /\ sched' = [sched EXCEPT !.called = TRUE,
                                  !.randomOffset = randomOffset,
                                  !.delay = l.delay,
                                  !.emitted = IF l.due THEN 1 ELSE 0]
        /\ UNCHANGED <<revision, cfg, pc, recvCb, peers, clock, nowMs,
                       offset, synced, lastSync, userCallback, last,
                       sinceSync, uptime, nAdvance, nRx, wire, race, mesh>>

DrawNext ==
    \E randomOffset \in DrawOffsets((cfg.interval * cfg.randomVariation) \div 100) :
        DrawLoop(randomOffset)

DrawSpec == DrawInit /\ [][DrawNext]_vars

(***************************************************************************)
(* begin() on its own: the sketch calls begin() any number of times, with  *)
(* either argument, registers its own receive callback, and adds and       *)
(* removes peers in between.                                               *)
(***************************************************************************)
\* peers the sketch adds for its own traffic; one of them is the broadcast
\* address on another channel
HostPeers ==
    {[peer_addr |-> "peerA", channel |-> 0, encrypt |-> FALSE],
     [peer_addr |-> "peerB", channel |-> 1, encrypt |-> TRUE],
     [peer_addr |-> bcastAddr, channel |-> 1, encrypt |-> FALSE]}

\* the sketch calls esp_now_add_peer() for a peer that is not in the list
HostAddPeer(peer) ==
    /\ pc = "running"
    /\ Idle
    /\ ~IsPeerExist(peers, peer.peer_addr)
    /\ peers' = Append(peers, peer)
    /\ last' = NoCall
    /\ UNCHANGED <<revision, cfg, pc, recvCb, clock, nowMs, offset, synced,
                   lastSync, lastBroadcast, nextBroadcastDelay, userCallback,
                   sinceSync, uptime, nAdvance, nRx>>
    /\ UNCHANGED studyVars

\* the list without the entries of addr
RECURSIVE WithoutPeer(_, _)
WithoutPeer(table, addr) ==
    IF table = <<>> THEN <<>>
    ELSE IF Head(table).peer_addr = addr THEN WithoutPeer(Tail(table), addr)
    ELSE <<Head(table)>> \o WithoutPeer(Tail(table), addr)

\* the sketch calls esp_now_del_peer() for a peer that is in the list
HostDelPeer(addr) ==
    /\ pc = "running"
    /\ Idle
    /\ IsPeerExist(peers, addr)
    /\ peers' = WithoutPeer(peers, addr)
    /\ last' = NoCall
    /\ UNCHANGED <<revision, cfg, pc, recvCb, clock, nowMs, offset, synced,
                   lastSync, lastBroadcast, nextBroadcastDelay, userCallback,
                   sinceSync, uptime, nAdvance, nRx>>
    /\ UNCHANGED studyVars

\* a node that has run begin(true) and has been set 900 us ahead by its first
\* clock frame
Resumed ==
    /\ revision = "src"
    /\ cfg = DefaultConfig
    /\ pc = "running"
    /\ recvCb = "_onReceive"
    /\ peers = <<BroadcastPeer>>
    /\ clock = 0
    /\ nowMs = U32Zero
    /\ offset = 900
    /\ synced = TRUE
    /\ lastSync = U32Zero
    /\ lastBroadcast = U32Zero
    /\ nextBroadcastDelay = U32Zero
    /\ userCallback = FALSE
    /\ last = NoCall
    /\ sinceSync = 0
    /\ uptime = 0
    /\ nAdvance = 0
    /\ nRx = 1

BeginInit ==
    /\ Parked \/ Resumed
    /\ wire = NoWire
    /\ sched = NoSched
    /\ race = NoRace
    /\ mesh = NoMesh

BeginNext ==
    \/ \E registerCallback \in BOOLEAN, initOk \in BOOLEAN :
          Begin(registerCallback, initOk)
    \/ RegisterHostCallback
    \/ \E peer \in HostPeers : HostAddPeer(peer)
    \/ \E peer \in HostPeers : HostDelPeer(peer.peer_addr)
    \/ Restart
    \/ Return

BeginSpec == BeginInit /\ [][BeginNext]_vars

(***************************************************************************)
(* meshMicros() preempted: _offset is a plain uint64_t, which the 32-bit   *)
(* processor loads and stores as two words.  The tick path loads the two   *)
(* words one after the other, in the order the compiler chose; the receive *)
(* path can run _adjust() to completion between the two loads.             *)
(***************************************************************************)
\* how many times the receive path preempts
MaxPreempt == 2

\* values of _offset when meshMicros() is called: 0, 900, 2^32 - 1000 and
\* 2^32 + 500 us
Offsets64 ==
    {U64Zero, <<0, 0, 0, 900>>, <<0, 0, 65535, 64536>>, <<0, 1, 0, 500>>}

\* what _adjust() adds to _offset: a slew step of 225 us, jumps of 2000 us,
\* 65543 us and 2^32 + 5 us, and the jump of -1000 us of the first revision
Steps64 ==
    {<<0, 0, 0, 225>>, <<0, 0, 0, 2000>>, <<0, 0, 1, 7>>, <<0, 1, 0, 5>>,
     <<65535, 65535, 65535, 64536>>}

RaceInit ==
    /\ Parked
    /\ wire = NoWire
    /\ sched = NoSched
    /\ mesh = NoMesh
    /\ \E o \in Offsets64 : race = [NoRace EXCEPT !.phase = "idle", !.offset = o]

\* meshMicros() loads one word of _offset
LoadFirst(word) ==
    /\ race.phase = "idle"
    /\ race' = [race EXCEPT
                   !.phase = "half",
                   !.first = word,
                   !.low = IF word = "low" THEN LowWord(race.offset) ELSE U32Zero,
                   !.high = IF word = "high" THEN HighWord(race.offset) ELSE U32Zero,
                   !.values = {race.offset}]
    /\ UNCHANGED <<nodeVars, wire, sched, mesh>>

\* the receive path runs _adjust(): _offset += step
AdjustPreempts(step) ==
    /\ race.phase \in {"idle", "half"}
    /\ race.writes < MaxPreempt
    /\ race' = [race EXCEPT
                   !.offset = U64Add(race.offset, step),
                   !.values = IF race.phase = "half"
                              THEN race.values \cup {U64Add(race.offset, step)}
                              ELSE race.values,
                   !.writes = race.writes + 1]
    /\ UNCHANGED <<nodeVars, wire, sched, mesh>>

\* meshMicros() loads the other word of _offset
LoadSecond ==
    /\ race.phase = "half"
    /\ race' = [race EXCEPT
                   !.phase = "done",
                   !.low = IF race.first = "high" THEN LowWord(race.offset) ELSE race.low,
                   !.high = IF race.first = "low" THEN HighWord(race.offset) ELSE race.high]
    /\ UNCHANGED <<nodeVars, wire, sched, mesh>>

\* meshMicros() returns _clock() + the value it loaded
MeshMicrosReturns ==
    /\ race.phase = "done"
    /\ race' = [race EXCEPT !.phase = "idle", !.first = "none", !.low = U32Zero,
                            !.high = U32Zero, !.values = {}]
    /\ UNCHANGED <<nodeVars, wire, sched, mesh>>

RaceNext ==
    \/ \E word \in {"low", "high"} : LoadFirst(word)
    \/ \E step \in Steps64 : AdjustPreempts(step)
    \/ LoadSecond
    \/ MeshMicrosReturns

RaceSpec == RaceInit /\ [][RaceNext]_vars

(***************************************************************************)
(* A mesh: nodes of one revision and one configuration whose counters run  *)
(* at the same rate.  Every node broadcasts again and again and every      *)
(* frame is handled at the instant it is stamped; a frame that is lost is  *)
(* a delivery that does not happen, and no pair loses frames forever.      *)
(* Mesh times are held relative to node 1, since the counters advance      *)
(* together and _adjust() looks at differences of mesh times only.         *)
(***************************************************************************)
\* number of nodes
MeshSize == 3

MeshNodes == 1 .. MeshSize

\* mesh time of each node at the start, relative to node 1 (us): the nodes
\* booted at different times
BootSkew == <<0, 5000, 5040, 40>>

\* large_step_us = 2000, slew_alpha = 0.25
MeshConfig ==
    [interval |-> 1000, alpha |-> Alpha025, largeStep |-> 2000,
     syncTimeout |-> 5000, randomVariation |-> 10]

\* the time a frame is on the air before it is handled (us): the estimate
\* the stamp of _broadcast() allows for, none where the stamp is meshMicros()
Transit == IF revision = "src" THEN 0 ELSE TRANSMISSION_DELAY_US

\* the stamp node j broadcasts, relative to the mesh time of node 1
MeshStamp(j) ==
    IF revision = "src" THEN mesh.ahead[j]
    ELSE mesh.ahead[j] + TRANSMISSION_DELAY_US

\* (uint64_t)(delta * _alpha) for every delta _adjust() slews by
MeshSlew ==
    [delta \in 1 .. MeshConfig.largeStep |-> SlewStep(delta, MeshConfig.alpha)]

\* remoteMicros - localMicros of node i as it handles a frame of node j: the
\* counters of both nodes have advanced by Transit since the frame was stamped
MeshDelta(j, i) == MeshStamp(j) - (mesh.ahead[i] + Transit)

\* _adjust(remoteMicros) on node i with the slew left out
AdjustNodeNoSlew(i, delta) ==
    IF ~mesh.synced[i] \/ Abs(delta) > cfg.largeStep
    THEN IF revision = "src" \/ delta > 0
         THEN [ahead |-> mesh.ahead[i] + delta, synced |-> TRUE]
         ELSE [ahead |-> mesh.ahead[i], synced |-> TRUE]
    ELSE [ahead |-> mesh.ahead[i], synced |-> mesh.synced[i]]

\* _adjust(remoteMicros) on node i, delta being remoteMicros - localMicros:
\* the mesh time and _synced it leaves
AdjustNode(i, delta) ==
    IF ~mesh.synced[i] \/ Abs(delta) > cfg.largeStep
    THEN IF revision = "src" \/ delta > 0
         THEN [ahead |-> mesh.ahead[i] + delta, synced |-> TRUE]
         ELSE [ahead |-> mesh.ahead[i], synced |-> TRUE]
    ELSE IF delta > 0
    THEN [ahead |-> mesh.ahead[i] + MeshSlew[delta],
          synced |-> mesh.synced[i]]
    ELSE [ahead |-> mesh.ahead[i], synced |-> mesh.synced[i]]

\* mesh times relative to node 1
Rebase(ahead) == [k \in MeshNodes |-> ahead[k] - ahead[1]]

\* node i has handled a frame of node j and is left as a
Delivered(j, i, a) ==
    [ahead |-> Rebase([mesh.ahead EXCEPT ![i] = a.ahead]),
     synced |-> [mesh.synced EXCEPT ![i] = a.synced],
     lastRx |-> <<j, i>>]

MeshInit ==
    /\ \E rev \in {"src", "part_001"} : revision = rev
    /\ cfg = MeshConfig
    /\ pc = "running"
    /\ recvCb = "_onReceive"
    /\ peers = <<BroadcastPeer>>
    /\ clock = 0
    /\ nowMs = U32Zero
    /\ offset = 0
    /\ synced = FALSE
    /\ lastSync = U32Zero
    /\ lastBroadcast = U32Zero
    /\ nextBroadcastDelay = U32Zero
    /\ userCallback = FALSE
    /\ last = NoCall
    /\ sinceSync = 0
    /\ uptime = 0
    /\ nAdvance = 0
    /\ nRx = 0
    /\ wire = NoWire
    /\ sched = NoSched
    /\ race = NoRace
    /\ mesh = [ahead |-> [k \in MeshNodes |-> BootSkew[k]],
               synced |-> [k \in MeshNodes |-> FALSE],
               lastRx |-> <<0, 0>>]

\* node i handles a broadcast of node j
Deliver(j, i) ==
    /\ j # i
    /\ mesh' = Delivered(j, i, AdjustNode(i, MeshDelta(j, i)))
    /\ UNCHANGED <<nodeVars, wire, sched, race>>

MeshNext == \E j \in MeshNodes, i \in MeshNodes : Deliver(j, i)

\* every node goes on broadcasting, and no node loses the frames of another
\* forever
MeshFairness ==
    \A j \in MeshNodes, i \in MeshNodes : WF_vars(Deliver(j, i))

MeshSpec == MeshInit /\ [][MeshNext]_vars /\ MeshFairness

(***************************************************************************)
(* The mesh with frames on the air: the counters of all nodes advance      *)
(* together, a broadcast is stamped when it is sent and handled by any     *)
(* other node at once or any time later, or by none.  Mesh times are       *)
(* absolute here (mesh.ahead[k] is meshMicros() of node k); sched.air      *)
(* holds the frames sent and not yet gone, sched.elapses counts the        *)
(* advances of the counters, sched.handled the receptions, sched.raised is *)
(* the amount by which the last reception moved its receiver's mesh time.  *)
(***************************************************************************)
\* advances of the counters
MaxAirTicks == 1

\* frames on the air at once
MaxAir == 2

\* receptions in the whole mesh
MaxAirRx == 3

\* the advances (us): less and more than TRANSMISSION_DELAY_US and than the
\* large-step threshold of MeshConfig
AirTicks == {500, 2500}

\* the largest mesh time held by any node
MeshMax(ahead) ==
    CHOOSE t \in {ahead[k] : k \in MeshNodes} :
        \A k \in MeshNodes : ahead[k] <= t

\* the revision whose stamp is plain meshMicros()
AirInit == MeshInit /\ revision = "src"

\* node j broadcasts: _broadcast() stamps the frame
AirSend(j) ==
    /\ Cardinality(sched.air) < MaxAir
    /\ sched' = [sched EXCEPT
                    !.air = @ \cup {[from |-> j, stamp |-> MeshStamp(j)]}]
    /\ UNCHANGED <<nodeVars, wire, race, mesh>>

\* the counters of all nodes advance by d
AirTick(d) ==
    /\ sched.elapses < MaxAirTicks
    /\ mesh' = [mesh EXCEPT !.ahead = [k \in MeshNodes |-> @[k] + d]]
    /\ sched' = [sched EXCEPT !.elapses = @ + 1]
    /\ UNCHANGED <<nodeVars, wire, race>>

\* node i handles the frame f, which stays on the air for the other nodes
AirDeliver(f, i) ==
    /\ f \in sched.air
    /\ f.from # i
    /\ sched.handled < MaxAirRx
    /\ LET a == AdjustNode(i, f.stamp - mesh.ahead[i])
       IN  /\ mesh' = [ahead |-> [mesh.ahead EXCEPT ![i] = a.ahead],
                       synced |-> [mesh.synced EXCEPT ![i] = a.synced],
                       lastRx |-> <<f.from, i>>]
           /\ sched' = [sched EXCEPT !.handled = @ + 1,
                                     !.raised = a.ahead - mesh.ahead[i]]
    /\ UNCHANGED <<nodeVars, wire, race>>

\* the frame f is gone: no node will handle it any more
AirGone(f) ==
    /\ f \in sched.air
    /\ sched' = [sched EXCEPT !.air = @ \ {f}]
    /\ UNCHANGED <<nodeVars, wire, race, mesh>>

AirNext ==
    \/ \E j \in MeshNodes : AirSend(j)
    \/ \E d \in AirTicks : AirTick(d)
    \/ \E f \in sched.air, i \in MeshNodes : AirDeliver(f, i)
    \/ \E f \in sched.air : AirGone(f)

AirSpec == AirInit /\ [][AirNext]_vars

(***************************************************************************)
(* Vocabulary of the properties                                            *)
(***************************************************************************)
\* the last operation was a reception, by either entry point
RxCall == last.op \in {"handleReceive", "_onReceive"}

\* the last operation handled a valid clock frame: _adjust() ran
ClockRx == RxCall /\ last.adjusted

\* remote - local of the clock frame just handled
Delta == last.remote - last.local

\* the clock frame just handled took the slew branch
SlewRx ==
    ClockRx /\ last.syncedBefore /\ Delta > 0 /\ Delta <= cfg.largeStep

\* floor(delta * a) for the decimal literal a passed as slew_alpha
FloorLiteral(delta, alpha) == (delta * alpha.num) \div alpha.den

RECURSIVE IsPowerOfTwo(_)
IsPowerOfTwo(n) == n = 1 \/ (n > 1 /\ n % 2 = 0 /\ IsPowerOfTwo(n \div 2))

(***************************************************************************)
(* getSyncState() under preemption: the host calls getSyncState(), which   *)
(* reads _synced, then millis(), then _lastSync; between any two of these  *)
(* the radio's task can run _onReceive() and time can move on.             *)
(* race.now is the local nowMs of the call, race.state what it returns,    *)
(* race.rxDuring tells that a valid clock frame was handled after the call *)
(* had read millis().                                                      *)
(***************************************************************************)
\* how many times the millisecond counter moves on
MaxPollTicks == 3

\* how far the millisecond counter moves between two steps, in ms: the next
\* millisecond, the sync timeout T, and one more
PollTicks(T) == {1, T, T + 1}

\* a node that has run begin(), and has handled a clock frame or not
PollInit ==
    /\ \E rev \in {"src", "part_001"} : revision = rev
    /\ cfg = DefaultConfig
    /\ pc = "running"
    /\ recvCb = "_onReceive"
    /\ peers = <<BroadcastPeer>>
    /\ clock = 0
    /\ \E now \in {U32Zero, <<65535, 65535>>} : nowMs = now
    /\ \E s \in BOOLEAN : synced = s
    /\ lastSync = IF synced THEN nowMs ELSE U32Zero
    /\ nRx = IF synced THEN 1 ELSE 0
    /\ offset = IF synced THEN 900 ELSE 0
    /\ lastBroadcast = U32Zero
    /\ nextBroadcastDelay = U32Zero
    /\ userCallback = FALSE
    /\ last = NoCall
    /\ sinceSync = 0
    /\ uptime = 0
    /\ nAdvance = 0
    /\ wire = NoWire
    /\ sched = NoSched
    /\ race = [NoRace EXCEPT !.phase = "idle"]
    /\ mesh = NoMesh

\* if (!_synced) return SyncState::ALONE;
PollReadSynced ==
    /\ race.phase = "idle"
    /\ race' = IF synced
               THEN [race EXCEPT !.phase = "synced", !.rxDuring = FALSE]
               ELSE [race EXCEPT !.phase = "returned", !.state = "ALONE",
                                 !.rxDuring = FALSE]
    /\ UNCHANGED <<nodeVars, wire, sched, mesh>>

\* uint32_t nowMs = millis();
PollReadMillis ==
    /\ race.phase = "synced"
    /\ race' = [race EXCEPT !.phase = "timed", !.now = nowMs]
    /\ UNCHANGED <<nodeVars, wire, sched, mesh>>

\* if (nowMs - _lastSync > _syncTimeout) return LOST; return SYNCED;
PollCompare ==
    /\ race.phase = "timed"
    /\ race' = [race EXCEPT
                   !.phase = "returned",
                   !.state = IF U32Gt(U32Sub(race.now, lastSync),
                                      U32FromInt(cfg.syncTimeout))
                             THEN "LOST" ELSE "SYNCED"]
    /\ UNCHANGED <<nodeVars, wire, sched, mesh>>

\* the host has the value and goes on
PollReturns ==
    /\ race.phase = "returned"
    /\ race' = [race EXCEPT !.phase = "idle", !.state = "none",
                            !.now = U32Zero, !.rxDuring = FALSE]
    /\ UNCHANGED <<nodeVars, wire, sched, mesh>>

\* d ms pass, during the call or between two calls
PollTick(d) ==
    /\ nAdvance < MaxPollTicks
    /\ race.phase # "returned"
    /\ nAdvance' = nAdvance + 1
    /\ nowMs' = U32Add(nowMs, d)
    /\ clock' = clock + 1000 * d
    /\ sinceSync' = sinceSync + d
    /\ uptime' = uptime + d
    /\ UNCHANGED <<revision, cfg, pc, recvCb, peers, offset, synced,
                   lastSync, lastBroadcast, nextBroadcastDelay, userCallback,
                   last, nRx, wire, sched, race, mesh>>

\* the radio's task runs _onReceive() for a clock frame, during the call or
\* between two calls
PollReceive(frame) ==
    LET r == onReceive(frame)
    IN  /\ nRx < MaxRx
        /\ race.phase # "returned"
        /\ r.handled.adjusted
        /\ offset' = r.handled.offset
        /\ synced' = r.handled.synced
        /\ lastSync' = r.handled.lastSync
        /\ nRx' = nRx + 1
        /\ sinceSync' = 0
        /\ race' = [race EXCEPT !.rxDuring = @ \/ race.phase = "timed"]
        /\ UNCHANGED <<revision, cfg, pc, recvCb, peers, clock, nowMs,
                       lastBroadcast, nextBroadcastDelay, userCallback, last,
                       uptime, nAdvance, wire, sched, mesh>>

PollNext ==
    \/ PollReadSynced
    \/ PollReadMillis
    \/ PollCompare
    \/ PollReturns
    \/ \E d \in PollTicks(cfg.syncTimeout) : PollTick(d)
    \/ \E mac \in Macs, stamp \in Stamps :
          PollReceive(Frame(mac, MeshClockPacket(stamp)))

PollSpec == PollInit /\ [][PollNext]_vars

(***************************************************************************)
(* C1  Monotonicity                                                        *)
(***************************************************************************)
\* C1: while the node runs, no operation decreases _offset, and the mesh time
\* read after an operation is never below the mesh time read before it.
C1_Monotonic ==
    [][(pc = "running" /\ pc' = "running") =>
          (offset' >= offset /\ clock' + offset' >= clock + offset)]_vars

(***************************************************************************)
(* C2  Forward-only adjustment                                             *)
(***************************************************************************)
\* C2: after a valid clock frame whose stamp is below the node's mesh time,
\* _offset is what it was before the frame, whichever branch handled it.
C2_ForwardOnly ==
    (ClockRx /\ last.remote < last.local) => offset = last.offsetBefore

(***************************************************************************)
(* C3  Large-step jump                                                     *)
(***************************************************************************)
\* C3: a valid clock frame with remote > local, handled while the node is not
\* synced or while remote - local exceeds the large-step threshold, raises
\* _offset by exactly remote - local, so that mesh time at the same counter
\* value equals remote.
C3_LargeStepJump ==
    (ClockRx /\ Delta > 0 /\ (~last.syncedBefore \/ Delta > cfg.largeStep)) =>
        /\ offset = last.offsetBefore + Delta
        /\ meshMicros = last.remote

\* a synced node has just jumped over more than the threshold
C3_Witness ==
    /\ ClockRx
    /\ last.syncedBefore
    /\ Delta = cfg.largeStep + 1
    /\ meshMicros = last.remote
    /\ offset > last.offsetBefore

C5_StateDerivation ==
    LET elapsed == U32Sub(nowMs, lastSync)
        timeout == U32FromInt(cfg.syncTimeout)
    IN  /\ getSyncState \in {"ALONE", "SYNCED", "LOST"}
        /\ (getSyncState = "ALONE") <=> ~synced
        /\ (getSyncState = "SYNCED") <=> (synced /\ ~U32Gt(elapsed, timeout))
        /\ (getSyncState = "LOST") <=> (synced /\ U32Gt(elapsed, timeout))
        /\ synced => elapsed = U32FromInt(sinceSync)
        /\ (synced /\ sinceSync <= cfg.syncTimeout) => getSyncState = "SYNCED"
        /\ (synced /\ sinceSync > cfg.syncTimeout) => getSyncState = "LOST"

\* exactly the timeout has elapsed since the last valid clock frame
C5_Witness ==
    /\ synced
    /\ sinceSync = cfg.syncTimeout
    /\ U32Sub(nowMs, lastSync) = U32FromInt(cfg.syncTimeout)
    /\ getSyncState = "SYNCED"

(***************************************************************************)
(* C6  ALONE until the first valid clock frame                             *)
(***************************************************************************)
\* C6: a node that has handled no valid clock frame reports ALONE, whatever
\* time has passed and whatever loop() has done.
C6_AloneBeforeFirstFrame == nRx = 0 => getSyncState = "ALONE"

\* past the sync timeout, a broadcast just sent, still no frame handled
C6_Witness ==
    /\ nRx = 0
    /\ uptime > cfg.syncTimeout
    /\ last.op = "loop"
    /\ last.sent # NoFrame
    /\ getSyncState = "ALONE"

(***************************************************************************)
(* C7  SYNCED after a valid clock frame                                    *)
(***************************************************************************)
\* C7: right after a reception that returned true the state is SYNCED,
\* whatever the state before and whatever remote - local; and the state is
\* SYNCED as long as no more than the sync timeout has elapsed since the last
\* valid clock frame.
C7_SyncedAfterFrame ==
    /\ (RxCall /\ last.ret) => getSyncState = "SYNCED"
    /\ (nRx > 0 /\ sinceSync <= cfg.syncTimeout) => getSyncState = "SYNCED"

\* a first frame from behind has just been handled by a node that was ALONE
C7_Witness ==
    /\ RxCall
    /\ last.ret
    /\ last.stateBefore = "ALONE"
    /\ last.remote < last.local
    /\ getSyncState = "SYNCED"

(***************************************************************************)
(* C8  Sync loss and recovery                                              *)
(***************************************************************************)
\* C8: once a valid clock frame has been handled, the state is LOST whenever
\* more than the sync timeout has elapsed since the last one; a valid clock
\* frame handled in state LOST brings the state back to SYNCED.
C8_LossAndRecovery ==
    /\ (nRx > 0 /\ sinceSync > cfg.syncTimeout) => getSyncState = "LOST"
    /\ (ClockRx /\ last.stateBefore = "LOST") => getSyncState = "SYNCED"

\* a node that was LOST has just recovered
C8_Witness ==
    /\ ClockRx
    /\ last.stateBefore = "LOST"
    /\ last.syncedBefore
    /\ getSyncState = "SYNCED"

(***************************************************************************)
(* C9  Every valid clock frame refreshes _lastSync                         *)
(***************************************************************************)
\* C9: after a valid clock frame _lastSync is the current millis() and _synced
\* is true, in each of the four adjustment cases, also when _offset is left
\* alone.
C9_LastSyncRefreshed ==
    ClockRx => (lastSync = nowMs /\ synced /\ sinceSync = 0)

\* a synced node 500 us ahead of the stamp: offset kept, _lastSync moved
C9_Witness ==
    /\ ClockRx
    /\ last.syncedBefore
    /\ Delta = -500
    /\ offset = last.offsetBefore
    /\ lastSync = nowMs
    /\ lastSync # last.lastSyncBefore
    /\ getSyncState = "SYNCED"

C11_CodecRoundTrip ==
    (wire.phase = "received" /\ wire.stamp[1] < 256) =>
        /\ Len(wire.packet) = 10
        /\ SubSeq(wire.packet, 1, 3) = <<77, 67, 75>>
        /\ SubSeq(wire.packet, 4, 10) =
               <<wire.stamp[4] % 256, wire.stamp[4] \div 256,
                 wire.stamp[3] % 256, wire.stamp[3] \div 256,
                 wire.stamp[2] % 256, wire.stamp[2] \div 256,
                 wire.stamp[1] % 256>>
        /\ wire.accepted
        /\ wire.decoded = wire.stamp

\* the largest 56-bit stamp, 2^56 - 1, has made the round trip
C11_Witness ==
    /\ wire.phase = "received"
    /\ wire.stamp = <<255, 65535, 65535, 65535>>
    /\ wire.accepted
    /\ wire.decoded = wire.stamp

\* the frame of the last reception is not a clock frame
OtherFrameRx ==
    /\ RxCall
    /\ ~(/\ last.frame.len = 10
         /\ SubSeq(last.frame.data, 1, 3) = <<77, 67, 75>>)

\* the fields that a reception or loop() can change are as the call found them
FieldsKept ==
    /\ offset = last.offsetBefore
    /\ synced = last.syncedBefore
    /\ lastSync = last.lastSyncBefore
    /\ lastBroadcast = last.lastBroadcastBefore
    /\ nextBroadcastDelay = last.nextBroadcastDelayBefore

(***************************************************************************)
(* C12  Coexistence through handleReceive()                                *)
(***************************************************************************)
\* C12 as stated: a frame that is not a clock frame, delivered to
\* handleReceive(), makes it return false and leaves _offset alone, and an
\* installed user callback receives the frame verbatim.
C12_HandleReceiveForwards ==
    (OtherFrameRx /\ last.op = "handleReceive") =>
        /\ ~last.ret
        /\ offset = last.offsetBefore
        /\ userCallback => last.userGot = last.frame

\* C12 amended: a frame that is not a clock frame makes the reception return
\* false and leaves _offset alone by either entry point; handleReceive() never
\* calls the user callback, installed or not; through _onReceive() an
\* installed user callback receives the frame verbatim (same source address,
\* bytes and length).
C12_Coexistence ==
    OtherFrameRx =>
        /\ ~last.ret
        /\ offset = last.offsetBefore
        /\ last.op = "handleReceive" =>
               (last.userCalls = 0 /\ last.userGot = NoFrame)
        /\ (last.op = "_onReceive" /\ userCallback) =>
               /\ last.userGot.mac = last.frame.mac
               /\ last.userGot.data = last.frame.data
               /\ last.userGot.len = last.frame.len

\* a synced node with a user callback installed has just been handed a 32-byte
\* frame through handleReceive()
C12_Witness ==
    /\ last.op = "handleReceive"
    /\ last.frame.len = 32
    /\ userCallback
    /\ synced
    /\ ~last.ret
    /\ last.userCalls = 0
    /\ offset = last.offsetBefore

(***************************************************************************)
(* C13  Exclusive routing in owning mode                                   *)
(***************************************************************************)
\* C13: for every frame delivered to _onReceive() exactly one of these
\* happens: it is a valid clock frame, given to _adjust() and not to the user
\* callback; it is not one and is given unmodified to the registered user
\* callback, once; it is not one, no user callback is registered, and nothing
\* is called.  A frame that is not a clock frame changes no field.
C13_ExclusiveRouting ==
    last.op = "_onReceive" =>
        LET isClock == /\ last.frame.len = 10
                       /\ SubSeq(last.frame.data, 1, 3) = <<77, 67, 75>>
        IN  \/ /\ isClock
               /\ last.adjusted
               /\ last.userCalls = 0
               /\ last.userGot = NoFrame
            \/ /\ ~isClock
               /\ ~last.adjusted
               /\ userCallback
               /\ last.userCalls = 1
               /\ last.userGot = last.frame
               /\ FieldsKept
            \/ /\ ~isClock
               /\ ~last.adjusted
               /\ ~userCallback
               /\ last.userCalls = 0
               /\ last.userGot = NoFrame
               /\ FieldsKept

\* a clock frame has just moved the offset of a node whose user callback is
\* installed, and the callback was not called
C13_Witness ==
    /\ last.op = "_onReceive"
    /\ userCallback
    /\ last.adjusted
    /\ offset # last.offsetBefore
    /\ last.userCalls = 0

Variation == (cfg.interval * cfg.randomVariation) \div 100

\* C15 as stated: every gap between two consecutive broadcasts lies within
\* [interval - variation, interval + variation] ms.
C15_GapWithinJitter ==
    sched.measured =>
        /\ U32Ge(sched.gap, U32FromInt(cfg.interval - Variation))
        /\ U32Ge(U32FromInt(cfg.interval + Variation), sched.gap)

\* C15 amended: the delay drawn for a gap lies within [interval - variation,
\* interval + variation] ms; the gap is at least that delay, and exceeds it by
\* less than the time between the call of loop() that broadcasts and the call
\* before it.  So a gap is never below interval - variation, it is the drawn
\* delay when loop() is called at every millisecond, and it can exceed
\* interval + variation when loop() is called less often.
C15_GapBounds ==
    sched.measured =>
        /\ U32Ge(sched.delay, U32FromInt(cfg.interval - Variation))
        /\ U32Ge(U32FromInt(cfg.interval + Variation), sched.delay)
        /\ U32Ge(sched.gap, sched.delay)
        /\ sched.lastPause >= 1
        /\ U32Gt(U32Add(sched.delay, sched.lastPause), sched.gap)
        /\ sched.lastPause = 1 => sched.gap = sched.delay

\* loop() called 5 ms after the call before it has just broadcast, more than
\* interval + variation after the previous broadcast
C15_Witness ==
    /\ sched.measured
    /\ sched.lastPause = 5
    /\ U32Gt(sched.gap, U32FromInt(cfg.interval + Variation))
    /\ lastBroadcast = nowMs

(***************************************************************************)
(* C16  begin()                                                            *)
(***************************************************************************)
\* C16: a begin(registerCallback) whose radio init succeeds leaves the radio
\* with _onReceive as receive callback if registerCallback is true and with
\* the callback it had if registerCallback is false; in both cases the
\* broadcast address is then in the peer list exactly once: if it was not
\* there, as a new entry on channel 0, not encrypted, and if it was, the list
\* is as it was (a repeated begin adds nothing).  A begin() whose radio init
\* fails changes neither and restarts the chip.
C16_BeginInstalls ==
    last.op = "begin" =>
        IF pc = "restart"
        THEN recvCb = last.recvCbBefore /\ peers = last.peersBefore
        ELSE /\ pc = "running"
             /\ last.registerCallback => recvCb = "_onReceive"
             /\ ~last.registerCallback => recvCb = last.recvCbBefore
             /\ Cardinality({i \in 1 .. Len(peers) :
                                peers[i].peer_addr = "FF:FF:FF:FF:FF:FF"}) = 1
             /\ IF \E i \in 1 .. Len(last.peersBefore) :
                       last.peersBefore[i].peer_addr = "FF:FF:FF:FF:FF:FF"
                THEN peers = last.peersBefore
                ELSE peers = last.peersBefore \o
                                <<[peer_addr |-> "FF:FF:FF:FF:FF:FF",
                                   channel |-> 0, encrypt |-> FALSE]>>

\* a later begin(false) has just returned on a node whose sketch has its own
\* callback and has put the broadcast address on channel 1 itself: nothing
\* was installed or added
C16_Witness ==
    /\ last.op = "begin"
    /\ pc = "running"
    /\ ~last.registerCallback
    /\ recvCb = "host"
    /\ peers = <<[peer_addr |-> "peerA", channel |-> 0, encrypt |-> FALSE],
                 [peer_addr |-> bcastAddr, channel |-> 1, encrypt |-> FALSE]>>
    /\ last.peersBefore = peers

C19_AtMostOneBroadcast ==
    last.op = "loop" =>
        LET elapsed == U32Sub(nowMs, last.lastBroadcastBefore)
            minimum == cfg.interval - (cfg.interval * cfg.randomVariation) \div 100
        IN  /\ last.sends \in {0, 1}
            /\ (last.sends = 0) <=> (last.sent = NoFrame)
            /\ last.sends = 1 =>
                   /\ U32Ge(elapsed, U32FromInt(minimum))
                   /\ lastBroadcast = nowMs
                   /\ nextBroadcastDelay = U32Zero
                   /\ last.sent.mac = "FF:FF:FF:FF:FF:FF"
                   /\ last.sent.len = 10
            /\ last.sends = 0 =>
                   /\ lastBroadcast = last.lastBroadcastBefore
                   /\ last.nextBroadcastDelayBefore # U32Zero =>
                          nextBroadcastDelay = last.nextBroadcastDelayBefore
                   /\ nextBroadcastDelay # U32Zero
                   /\ U32Gt(nextBroadcastDelay, elapsed)

\* one broadcast has just been sent by a call of loop() that came four
\* intervals or more after a broadcast
C19_Witness ==
    /\ last.op = "loop"
    /\ last.sends = 1
    /\ last.lastBroadcastBefore # U32Zero
    /\ U32Ge(U32Sub(nowMs, last.lastBroadcastBefore), U32FromInt(4 * cfg.interval))
    /\ lastBroadcast = nowMs

(***************************************************************************)
(* C20  Consistent reads of _offset under preemption                       *)
(***************************************************************************)
\* C20: the 64-bit value of _offset that a call of meshMicros() uses is one of
\* the values _offset held during the call (the one before a write by the
\* receive path or the one after it), never the low word of one and the high
\* word of another.
C20_ConsistentOffsetRead ==
    race.phase = "done" => FromWords(race.high, race.low) \in race.values

(***************************************************************************)
(* C17  Convergence                                                        *)
(***************************************************************************)
\* every node has been synced
AllSynced == \A i \in MeshNodes : mesh.synced[i]

\* the largest distance between the mesh times of two nodes
Spread(d) ==
    \A i \in MeshNodes, j \in MeshNodes : mesh.ahead[i] - mesh.ahead[j] <= d

\* the largest positive delta _adjust() slews by nothing: the step
\* (uint64_t)(delta * _alpha) is 0 up to it
SlewResidual ==
    CHOOSE d \in 0 .. MeshConfig.largeStep - 1 :
        /\ \A e \in 1 .. d : MeshSlew[e] = 0
        /\ MeshSlew[d + 1] > 0

StampSent == wire.phase \in {"sent", "received"}

\* C21 as stated: the stamp in every broadcast frame is meshMicros() at the
\* moment of emission plus the transmission delay (1000 us unless set
\* otherwise).
C21_StampIsCompensated ==
    StampSent =>
        /\ wire.stamp = U64Add(wire.micros, U64FromNat(wire.delay))
        /\ wire.packet = MeshClockPacket64(wire.stamp)

\* C21 amended: in the revision that has TRANSMISSION_DELAY_US (part_001) the
\* stamp is meshMicros() plus the value of that build constant, modulo 2^64,
\* so meshMicros() itself when the constant is 0; in the other revision the
\* stamp is meshMicros().  The frame carries the low 56 bits of the stamp,
\* and a receiver decodes the stamp itself when it is below 2^56.
C21_StampByRevision ==
    StampSent =>
        /\ revision = "part_001" =>
               wire.stamp = U64Add(wire.micros, U64FromNat(wire.delay))
        /\ revision = "src" => wire.stamp = wire.micros
        /\ wire.delay = 0 => wire.stamp = wire.micros
        /\ wire.packet = Magic \o [i \in 1 .. 7 |-> ByteOf(wire.stamp, i - 1)]
        /\ (wire.phase = "received" /\ wire.stamp[1] < 256) =>
               wire.decoded = wire.stamp

\* part_001 built with the default delay: mesh time 65535 us was stamped as
\* 66535 us and decoded as that by a receiver
C21_Witness ==
    /\ revision = "part_001"
    /\ wire.phase = "received"
    /\ wire.delay = 1000
    /\ wire.micros = <<0, 0, 0, 65535>>
    /\ wire.stamp = <<0, 0, 1, 999>>
    /\ wire.decoded = <<0, 0, 1, 999>>

(***************************************************************************)
(* C22  meshMillis()                                                       *)
(***************************************************************************)
\* micros / 1000 for a uint64_t: the q with q * 1000 <= micros < q * 1000 + 1000
IsThousandth(q, micros) ==
    /\ U64Ge(micros, U64MulSmall(q, 1000))
    /\ U64Ge(U64FromNat(999), U64Sub(micros, U64MulSmall(q, 1000)))
    /\ U64Ge(<<65, 35127, 19398, 42991>>, q)

\* milliseconds of mesh time between the two calls: the whole milliseconds
\* of mesh time at the second call minus those at the first
ElapsedMeshMillis ==
    U64Sub(U64DivSmall(wire.micros, 1000), U64DivSmall(wire.micros0, 1000))

\* C22: meshMillis() returns meshMicros() / 1000 (integer division) reduced
\* modulo 2^32; for two calls, the second when mesh time is not less than at
\* the first and fewer than 2^32 ms of mesh time later, the second result
\* minus the first modulo 2^32 is the number of mesh milliseconds elapsed.
C22_MeshMillisModular ==
    wire.phase = "t2" =>
        /\ IsThousandth(U64DivSmall(wire.micros0, 1000), wire.micros0)
        /\ IsThousandth(U64DivSmall(wire.micros, 1000), wire.micros)
        /\ wire.millis0 = <<U64DivSmall(wire.micros0, 1000)[3],
                            U64DivSmall(wire.micros0, 1000)[4]>>
        /\ wire.millis = <<U64DivSmall(wire.micros, 1000)[3],
                           U64DivSmall(wire.micros, 1000)[4]>>
        /\ (U64Ge(wire.micros, wire.micros0)
              /\ HighWord(ElapsedMeshMillis) = U32Zero) =>
               U32Sub(wire.millis, wire.millis0) = LowWord(ElapsedMeshMillis)

\* meshMillis() returned 2^32 - 1, mesh time moved on by 1 us to 2^32 * 1000 us,
\* and meshMillis() returned 0: the difference modulo 2^32 is 1 ms
C22_Witness ==
    /\ wire.phase = "t2"
    /\ wire.micros0 = <<0, 999, 65535, 65535>>
    /\ wire.millis0 = <<65535, 65535>>
    /\ wire.micros = <<0, 1000, 0, 0>>
    /\ wire.millis = U32Zero
    /\ U32Sub(wire.millis, wire.millis0) = <<0, 1>>

(***************************************************************************)
(* C23  Cold start of a single node                                        *)
(***************************************************************************)
\* C23: a node with interval 1000 ms and 10 % variation whose loop() is called
\* at every millisecond from boot and that receives no frame has broadcast at
\* most 11 times at any moment of its first 10 000 ms, and at least 9 times
\* when they are over; it reports ALONE throughout.
C23_ColdStartBroadcasts ==
    /\ cfg.interval = 1000 /\ cfg.randomVariation = 10
    /\ sched.emitted <= 11
    /\ uptime > MaxColdMs => sched.emitted >= 9
    /\ getSyncState = "ALONE"

\* the first 10 000 ms are over and the node, whose every delay was 1100 ms,
\* has broadcast 9 times, the last time at 9900 ms
C23_Witness ==
    /\ uptime > MaxColdMs
    /\ sched.emitted = 9
    /\ lastBroadcast = <<0, 9900>>
    /\ getSyncState = "ALONE"

(***************************************************************************)
(* C24  The interval draw                                                  *)
(***************************************************************************)
\* C24: a call of loop() that finds _nextBroadcastDelay = 0 sets it to
\* interval + r, r the value of random(), which lies in -variation ..
\* variation with variation = floor(interval * percent / 100); for a percent
\* of at most 100 the value lies in interval - variation .. interval +
\* variation and has not wrapped below zero, and it is the interval for a
\* percent of 0.  It stays in _nextBroadcastDelay unless it is 0, when the
\* call broadcasts at once.
C24_IntervalDraw ==
    sched.called =>
        LET variation == (cfg.interval * cfg.randomVariation) \div 100
            sum       == cfg.interval + sched.randomOffset
        IN  /\ sched.randomOffset \in -variation .. variation
            /\ cfg.randomVariation <= 100 =>
                   /\ sum >= 0
                   /\ sched.delay = <<sum \div Limb, sum % Limb>>
                   /\ sum \in cfg.interval - variation .. cfg.interval + variation
                   /\ cfg.interval - variation >= 0
                   /\ sched.delay[1] * Limb + sched.delay[2]
                          \in cfg.interval - variation .. cfg.interval + variation
                   /\ nextBroadcastDelay = sched.delay
                   /\ sched.emitted = 1 <=> sum = 0
            /\ cfg.randomVariation = 0 => sched.delay = <<0, cfg.interval>>

\* interval 65535 ms, 100 %: random() returned 65535 and the delay stored is
\* 131070 ms
C24_Witness ==
    /\ sched.called
    /\ cfg.interval = 65535
    /\ cfg.randomVariation = 100
    /\ sched.randomOffset = 65535
    /\ nextBroadcastDelay = <<1, 65534>>
    /\ sched.emitted = 0

(***************************************************************************)
(* C25  The emission rule                                                  *)
(***************************************************************************)
\* C25: a call of loop() broadcasts exactly when millis() minus _lastBroadcast
\* modulo 2^32 is at least the delay, which is _nextBroadcastDelay as the call
\* found it or, if that was 0, the delay the call drew; when it broadcasts it
\* sets _lastBroadcast to millis(), not to the time the broadcast was due,
\* and _nextBroadcastDelay to 0; when it does not, _lastBroadcast is unchanged
\* and _nextBroadcastDelay holds the delay.
C25_EmissionRule ==
    last.op = "loop" =>
        LET elapsed == U32Sub(nowMs, last.lastBroadcastBefore)
        IN  /\ last.nextBroadcastDelayBefore # U32Zero =>
                   last.delay = last.nextBroadcastDelayBefore
            /\ last.drew <=> last.nextBroadcastDelayBefore = U32Zero
            /\ (last.sends = 1) <=> U32Ge(elapsed, last.delay)
            /\ last.sends \in {0, 1}
            /\ last.sends = 1 =>
                   /\ lastBroadcast = nowMs
                   /\ nextBroadcastDelay = U32Zero
            /\ last.sends = 0 =>
                   /\ lastBroadcast = last.lastBroadcastBefore
                   /\ nextBroadcastDelay = last.delay

\* millis() has wrapped to 0 since the broadcast made 2001 ms before the wrap;
\* loop() has broadcast, later than the delay asked for, and _lastBroadcast is
\* now 0 and not the time the broadcast was due
C25_Witness ==
    /\ last.op = "loop"
    /\ last.sends = 1
    /\ last.lastBroadcastBefore = <<65535, 63535>>
    /\ nowMs = U32Zero
    /\ U32Gt(U32Sub(nowMs, last.lastBroadcastBefore), last.delay)
    /\ lastBroadcast = U32Zero
    /\ lastBroadcast # U32Add(last.lastBroadcastBefore,
                              last.delay[1] * Limb + last.delay[2])

(***************************************************************************)
(* C26  One draw per emission                                              *)
(***************************************************************************)
\* C26: for every broadcast, random() was called exactly once since the
\* broadcast before it (since boot for the first); the call is made by the
\* first call of loop() after that broadcast, so that while no delay is drawn
\* no call of loop() has been made since the broadcast; the delay drawn stays
\* in _nextBroadcastDelay, unchanged by the calls that do not broadcast, and
\* is the delay the broadcast waited for.
C26_OneDrawPerEmission ==
    /\ sched.draws \in {0, 1}
    /\ sched.broadcasts >= 1 => sched.gapDraws = 1
    /\ sched.draws = 0 <=> nextBroadcastDelay = U32Zero
    /\ sched.draws = 1 =>
           /\ nextBroadcastDelay = sched.drawn
           /\ U32Gt(sched.drawn, U32Sub(U32Sub(nowMs, lastBroadcast),
                                        U32FromInt(sched.pause)))
    /\ (sched.draws = 0 /\ sched.broadcasts >= 1) =>
           U32Sub(nowMs, lastBroadcast) = U32FromInt(sched.pause)
    /\ (sched.draws = 0 /\ sched.broadcasts = 0) => uptime = sched.pause

\* a second broadcast has been made, after the one draw of its gap, by a call
\* of loop() that came after calls that left the drawn delay alone
C26_Witness ==
    /\ sched.measured
    /\ sched.gapDraws = 1
    /\ sched.draws = 0
    /\ sched.lastPause = 1
    /\ sched.gap = sched.delay
    /\ lastBroadcast = nowMs

(***************************************************************************)
(* C27  A rejected send is not retried                                     *)
(***************************************************************************)
\* C27: a call of loop() that broadcasts calls esp_now_send once, whether the
\* call succeeds or fails, and leaves _lastBroadcast at millis() and
\* _nextBroadcastDelay at 0 in both cases; _offset, _synced and _lastSync are
\* as they were; after a rejected send the next send comes only when the
\* delay drawn after it, at least interval - variation ms, has passed.
C27_NoRetry ==
    /\ sched.sends \in {0, 1}
    /\ sched.sends = 1 =>
           /\ U32Sub(nowMs, lastBroadcast) = U32FromInt(sched.pause)
           /\ sched.pause = 0 => nextBroadcastDelay = U32Zero
    /\ offset = 0 /\ ~synced /\ lastSync = U32Zero
    /\ (sched.failed /\ sched.draws = 1) =>
           U32Gt(sched.drawn, U32Sub(U32Sub(nowMs, lastBroadcast),
                                     U32FromInt(sched.pause)))
    /\ (sched.measured /\ sched.afterFailure) =>
           /\ U32Ge(sched.gap, sched.delay)
           /\ U32Ge(sched.delay, U32FromInt(cfg.interval - Variation))

\* esp_now_send has rejected two broadcasts in a row: the second was sent
\* exactly the drawn delay after the first, by a single call, and the
\* scheduler fields are those of a broadcast
C27_Witness ==
    /\ sched.measured
    /\ sched.afterFailure
    /\ sched.failed
    /\ sched.sends = 1
    /\ sched.pause = 0
    /\ sched.gap = sched.delay
    /\ lastBroadcast = nowMs
    /\ nextBroadcastDelay = U32Zero

(***************************************************************************)
(* C28  Fatal failure of the radio initialisation                          *)
(***************************************************************************)
\* C28: a call of begin() goes to the restart exactly when esp_now_init()
\* fails; it has then neither registered the receive callback nor added the
\* broadcast peer (the radio's callback and peer list are as the call found
\* them), and _offset, _synced, _lastSync and the scheduler fields are as they
\* were.
C28_FatalInitFailure ==
    last.op = "begin" =>
        /\ pc = "restart" <=> ~last.ret
        /\ ~last.ret =>
               /\ recvCb = last.recvCbBefore
               /\ peers = last.peersBefore
               /\ offset = last.offsetBefore
               /\ synced = last.syncedBefore
               /\ lastSync = last.lastSyncBefore
               /\ lastBroadcast = last.lastBroadcastBefore
               /\ nextBroadcastDelay = last.nextBroadcastDelayBefore

\* begin(true) has failed on a synced node whose sketch had registered its own
\* callback and removed the broadcast peer: the node is about to restart with
\* the radio and the clock as they were
C28_Witness ==
    /\ last.op = "begin"
    /\ last.registerCallback
    /\ ~last.ret
    /\ pc = "restart"
    /\ recvCb = "host"
    /\ ~IsPeerExist(peers, bcastAddr)
    /\ synced
    /\ offset = 900

C30_ReceiveNeverSends ==
    /\ RxCall =>
          /\ last.sends = 0
          /\ last.sent = NoFrame
          /\ lastBroadcast = last.lastBroadcastBefore
          /\ nextBroadcastDelay = last.nextBroadcastDelayBefore
    /\ last.sends > 0 => last.op = "loop"

\* a node that has broadcast before has just accepted a clock frame in its own
\* radio callback and moved its clock, without sending anything
C30_Witness ==
    /\ last.op = "_onReceive"
    /\ last.adjusted
    /\ offset # last.offsetBefore
    /\ lastBroadcast # U32Zero
    /\ last.sends = 0

(***************************************************************************)
(* C31  56-bit truncation without sign extension                           *)
(***************************************************************************)
\* C31: for every 64-bit stamp the frame _broadcast() builds is accepted and
\* its timestamp field holds the stamp modulo 2^56 (bytes 0..6 of the stamp,
\* byte 7 dropped); the value handleReceive() decodes is the stamp modulo
\* 2^56, with bits 56..63 zero whatever bit 55 is.
C31_TruncatedTo56Bits ==
    wire.phase = "received" =>
        /\ wire.accepted
        /\ Len(wire.packet) = 10
        /\ SubSeq(wire.packet, 4, 10) =
               <<wire.stamp[4] % 256, wire.stamp[4] \div 256,
                 wire.stamp[3] % 256, wire.stamp[3] \div 256,
                 wire.stamp[2] % 256, wire.stamp[2] \div 256,
                 wire.stamp[1] % 256>>
        /\ wire.decoded =
               <<wire.stamp[1] % 256, wire.stamp[2], wire.stamp[3],
                 wire.stamp[4]>>
        /\ wire.decoded[1] < 256

\* the stamp 2^64 - 1, bits 55 and 56..63 set, has been sent and decoded as
\* 2^56 - 1
C31_Witness ==
    /\ wire.phase = "received"
    /\ wire.stamp = <<65535, 65535, 65535, 65535>>
    /\ wire.packet[10] = 255
    /\ wire.decoded = <<255, 65535, 65535, 65535>>

(***************************************************************************)
(* C32  Disjoint write sets of the tick and the receive path               *)
(***************************************************************************)
\* C32: on a running node every step that changes _offset, _synced or
\* _lastSync is a call of the receive path (_onReceive() or handleReceive()),
\* and every step that changes _lastBroadcast or _nextBroadcastDelay is a call
\* of loop(): each of the five fields has one writer, whatever the order of
\* the calls.
C32_DisjointWriteSets ==
    [][(pc = "running" /\ pc' = "running") =>
          /\ (offset' # offset \/ synced' # synced \/ lastSync' # lastSync) =>
                 last'.op \in {"handleReceive", "_onReceive"}
          /\ (\/ lastBroadcast' # lastBroadcast
              \/ nextBroadcastDelay' # nextBroadcastDelay) =>
                 last'.op = "loop"]_vars

\* loop() has just broadcast from a node that a clock frame had synced and
\* moved: it stamped _lastBroadcast and left the three clock fields alone
C32_Witness ==
    /\ last.op = "loop"
    /\ last.sends = 1
    /\ lastBroadcast # last.lastBroadcastBefore
    /\ synced
    /\ offset # 0
    /\ offset = last.offsetBefore
    /\ lastSync = last.lastSyncBefore

(***************************************************************************)
(* C35  LOST is stable under silence                                       *)
(***************************************************************************)
\* C35: once getSyncState() has returned LOST it returns LOST at every later
\* time, until a valid clock frame is handled.
C35_LostStableUnderSilence == sched.lost => getSyncState = "LOST"

(***************************************************************************)
(* C33  ALONE is never re-entered                                          *)
(***************************************************************************)
\* C33: once a reception has returned true, on a node that keeps running
\* _synced stays true and getSyncState() is never ALONE again; the state
\* changes only from SYNCED to LOST, while time passes without a frame, and
\* from LOST to SYNCED, when a valid clock frame is handled.
C33_AloneNeverReentered ==
    [][(pc = "running" /\ pc' = "running" /\ nRx > 0) =>
          /\ synced /\ synced'
          /\ getSyncState' # "ALONE"
          /\ getSyncState' # getSyncState =>
                \/ /\ getSyncState = "SYNCED"
                   /\ getSyncState' = "LOST"
                   /\ nowMs' # nowMs
                   /\ lastSync' = lastSync
                \/ /\ getSyncState = "LOST"
                   /\ getSyncState' = "SYNCED"
                   /\ nRx' = nRx + 1
                   /\ lastSync' = nowMs']_vars

(***************************************************************************)
(* C34  No overshoot                                                       *)
(***************************************************************************)
\* C34: after a valid clock frame whose stamp is above the node's mesh time,
\* the node's mesh time at the same counter value is at least what it was and
\* at most the stamp, for every slew rate from 0 to 1.
C34_NoOvershoot ==
    (ClockRx /\ Delta > 0) =>
        /\ meshMicros >= clock + last.offsetBefore
        /\ meshMicros <= last.remote

(***************************************************************************)
(* C36  No spurious LOST under preemption                                  *)
(***************************************************************************)
\* C36: getSyncState() does not return LOST when a valid clock frame was
\* handled within the last sync_timeout ms, in particular when the receive
\* path handled one while getSyncState() was executing, after it had read
\* millis() and before it read _lastSync.
C36_NoSpuriousLost ==
    (race.phase = "returned" /\ nRx > 0 /\ sinceSync <= cfg.syncTimeout) =>
        race.state # "LOST"

(***************************************************************************)
(* C37  Other traffic does not count as reception                          *)
(***************************************************************************)
\* C37: a frame for which the reception returns false leaves _synced,
\* _lastSync and _offset as they were, and with them the sync state; so a
\* node that has handled no valid clock frame is ALONE whatever else it has
\* received, and a synced node whose last valid clock frame is more than the
\* sync timeout old is LOST whatever else it has received since.
C37_OtherTrafficIsNoReception ==
    /\ (RxCall /\ ~last.ret) =>
          /\ synced = last.syncedBefore
          /\ lastSync = last.lastSyncBefore
          /\ offset = last.offsetBefore
          /\ getSyncState = last.stateBefore
    /\ (RxCall /\ ~last.ret /\ nRx = 0) => getSyncState = "ALONE"
    /\ (RxCall /\ ~last.ret /\ nRx > 0 /\ sinceSync > cfg.syncTimeout) =>
          getSyncState = "LOST"

\* a node that is LOST has just been handed a frame of the host's own
\* protocol, and is still LOST
C37_Witness ==
    /\ RxCall
    /\ ~last.ret
    /\ last.frame.len > 0
    /\ last.stateBefore = "LOST"
    /\ sinceSync > cfg.syncTimeout
    /\ getSyncState = "LOST"

(***************************************************************************)
(* C38  Receptions do not push the mesh ahead                              *)
(***************************************************************************)
\* C38: in a mesh whose counters advance at the same rate, with stamps that
\* are plain meshMicros() and frames handled at once or later, a step in
\* which the counters do not advance (a reception in particular) leaves no
\* node with a mesh time above the largest mesh time any node held before
\* it, and a step in which the counters advance by d adds d to every node's
\* mesh time: the largest mesh time advances at the counter rate only
C38_NoPushAhead ==
    [][revision = "src" =>
          /\ sched'.elapses = sched.elapses =>
                 \A k \in MeshNodes : mesh'.ahead[k] <= MeshMax(mesh.ahead)
          /\ sched'.elapses # sched.elapses =>
                 \E d \in AirTicks :
                     \A k \in MeshNodes : mesh'.ahead[k] = mesh.ahead[k] + d]_vars

====
